---- MODULE Spec2Model ----
(***************************************************************************)
(* Model of the MedicalImageViewer loading and slicing core:               *)
(*   - FileLoaderService (src/src/services/fileLoader.ts): format          *)
(*     dispatch, the NumPy / DICOM / NIfTI / raster decoders, the stack    *)
(*     assembler, in its FileReader version and in its earlier shared      *)
(*     Web Worker version;                                                  *)
(*   - the viewer store and the upload handler that writes into it;        *)
(*   - the 2D renderer's and the MPR viewer's slice extraction.            *)
(* File names are sequences of one-character strings so that lower-casing, *)
(* suffix tests and collation are computed, not assumed.                   *)
(***************************************************************************)
EXTENDS Integers, Sequences, FiniteSets, TLC

VARIABLES
    \* format dispatch (loadFile applied to one file)
    detIn, detOut,
    \* upload handler, loader promises and viewer store
    calls, nextCall, store, workerHandler, workerReading, mainInbox,
    \* decoders applied to one file image
    decIn, decOut,
    \* slice extraction
    sliceIn, out2D, outMPR,
    \* stack assembler
    stackIn, stackAlt, stackOut, stackAltOut,
    \* window/level mapping applied to two samples
    wlIn, wlOut,
    \* viewer store driven by the controls: last operation, pending setImageFile loads
    storeOp, storeLoads,
    \* mouse handling of the 2D canvas
    drag,
    \* volume renderer hook
    volume

detectVars == <<detIn, detOut>>
loaderVars == <<calls, nextCall, store, workerHandler, workerReading, mainInbox>>
decodeVars == <<decIn, decOut>>
sliceVars  == <<sliceIn, out2D, outMPR>>
stackVars  == <<stackIn, stackAlt, stackOut, stackAltOut>>
wlVars == <<wlIn, wlOut>>
storeOpVars == <<storeOp, storeLoads>>
mouseVars == <<drag>>
volumeVars == <<volume>>
viewVars == <<wlVars, storeOpVars, mouseVars, volumeVars>>
vars == <<detIn, detOut, calls, nextCall, store, workerHandler, workerReading,
          mainInbox, decIn, decOut, sliceIn, out2D, outMPR,
          stackIn, stackAlt, stackOut, stackAltOut,
          wlIn, wlOut, storeOp, storeLoads, drag, volume>>

\* Bounds of the model.
MaxCalls == 2
MaxDim == 2
MaxStack == 3
MaxSample == 6
MaxPointer == 2
MaxVolDim == 2

None == [none |-> TRUE]

(***************************************************************************)
(* File names                                                              *)
(***************************************************************************)
UpperToLower ==
    [c \in {"A", "B", "C", "D", "E", "G", "I", "J", "M", "N", "P", "Y", "Z"} |->
        CASE c = "A" -> "a" [] c = "B" -> "b" [] c = "C" -> "c" [] c = "D" -> "d"
          [] c = "E" -> "e" [] c = "G" -> "g" [] c = "I" -> "i" [] c = "J" -> "j"
          [] c = "M" -> "m" [] c = "N" -> "n" [] c = "P" -> "p" [] c = "Y" -> "y"
          [] c = "Z" -> "z"]

\* String.prototype.toLowerCase, one character
LowerChar(c) == IF c \in DOMAIN UpperToLower THEN UpperToLower[c] ELSE c

\* String.prototype.toLowerCase
toLowerCase(s) == [i \in 1..Len(s) |-> LowerChar(s[i])]

\* String.prototype.endsWith
endsWith(s, suffix) ==
    /\ Len(s) >= Len(suffix)
    /\ SubSeq(s, Len(s) - Len(suffix) + 1, Len(s)) = suffix

ExtNpy   == <<".", "n", "p", "y">>
ExtNii   == <<".", "n", "i", "i">>
ExtNiiGz == <<".", "n", "i", "i", ".", "g", "z">>
ExtDcm   == <<".", "d", "c", "m">>
ExtDicom == <<".", "d", "i", "c", "o", "m">>
ExtPng   == <<".", "p", "n", "g">>
ExtJpg   == <<".", "j", "p", "g">>
ExtJpeg  == <<".", "j", "p", "e", "g">>

(***************************************************************************)
(* loadFile: the decoder chosen for a file name                            *)
(***************************************************************************)
\* the if / else-if chain of loadFile without the toLowerCase of its first line
loadFileDecoder_CaseSensitive(name) ==
    IF endsWith(name, ExtNpy) THEN "numpy"
    ELSE IF endsWith(name, ExtNii) \/ endsWith(name, ExtNiiGz) THEN "nifti"
    ELSE IF endsWith(name, ExtDcm) \/ endsWith(name, ExtDicom) THEN "dicom"
    ELSE IF endsWith(name, ExtPng) \/ endsWith(name, ExtJpg)
            \/ endsWith(name, ExtJpeg) THEN "image"
    ELSE "unsupported"

loadFileDecoder(name) ==
    LET filename == toLowerCase(name) IN
    IF endsWith(filename, ExtNpy) THEN "numpy"
    ELSE IF endsWith(filename, ExtNii) \/ endsWith(filename, ExtNiiGz) THEN "nifti"
    ELSE IF endsWith(filename, ExtDcm) \/ endsWith(filename, ExtDicom) THEN "dicom"
    ELSE IF endsWith(filename, ExtPng) \/ endsWith(filename, ExtJpg)
            \/ endsWith(filename, ExtJpeg) THEN "image"
    ELSE "unsupported"

\* What loadFile does with a file whose decoder, once invoked, resolves
\* (decodes = TRUE) or rejects: the decoder it invokes and how its promise settles.
\* Each loadXFile tags its result with its own fileType; every failure is
\* re-thrown by the catch of loadFile as 'Failed to load file: ...'.
loadFile(name, decodes) ==
    LET decoder == loadFileDecoder(name) IN
    IF decoder = "unsupported"
    THEN [settled |-> "rejected", invoked |-> "none", fileType |-> "none",
          error |-> "Unsupported file format"]
    ELSE IF decodes
    THEN [settled |-> "resolved", invoked |-> decoder, fileType |-> decoder,
          error |-> "none"]
    ELSE [settled |-> "rejected", invoked |-> decoder, fileType |-> "none",
          error |-> "decode"]

DetectStems == { <<>>, <<"a">>, <<"A", ".", "n", "i", "i">>, <<"n", "p", "y", ".">> }
DetectExts ==
    { ExtNpy, ExtNii, ExtNiiGz, ExtDcm, ExtDicom, ExtPng, ExtJpg, ExtJpeg,
      <<".", "N", "P", "Y">>, <<".", "N", "i", "i">>, <<".", "n", "i", "i", ".", "G", "Z">>,
      <<".", "D", "C", "M">>, <<".", "D", "i", "c", "o", "m">>, <<".", "P", "N", "G">>,
      <<".", "J", "p", "g">>, <<".", "J", "P", "E", "G">>,
      <<".", "g", "z">>, <<".", "t", "x", "t">>, <<"n", "p", "y">>, <<"d", "c", "m">>,
      <<".", "n", "p", "z">>, <<".", "p", "n", "g", ".", "b", "a", "k">>, <<>> }
DetectNames == { s \o e : s \in DetectStems, e \in DetectExts }

DetectIdle == detIn = None /\ detOut = None

InitDetect ==
    /\ detIn \in [name : DetectNames, decodes : BOOLEAN]
    /\ detOut = None

\* fileLoader.loadFile(file) run to settlement for one file
RunLoadFile ==
    /\ detOut = None
    /\ detOut' = loadFile(detIn.name, detIn.decodes)
    /\ UNCHANGED detIn
    /\ UNCHANGED <<loaderVars, decodeVars, sliceVars, stackVars, viewVars>>

(***************************************************************************)
(* Viewer store (zustand) and the upload handler                           *)
(***************************************************************************)
Slots == {"image", "mask"}
CallIds == 1..MaxCalls

\* Files a user can drop on an upload area.  outcome is what the file's bytes
\* make its decoder do once the bytes have been read: "ok" decodes, "err" is a
\* failure the decoder reports (bad magic, missing pixel data, reader error),
\* "throw" is an exception raised inside the read callback (a typed-array
\* constructor given a truncated payload).
LoaderFiles ==
    { [id |-> "A", name |-> <<"a", ".", "n", "p", "y">>, dims |-> <<2, 2, 1>>, outcome |-> "ok"],
      [id |-> "B", name |-> <<"b", ".", "N", "P", "Y">>, dims |-> <<2, 2, 2>>, outcome |-> "ok"],
      [id |-> "C", name |-> <<"c", ".", "n", "i", "i">>, dims |-> <<2, 2, 2>>, outcome |-> "throw"],
      [id |-> "D", name |-> <<"d", ".", "d", "c", "m">>, dims |-> <<2, 2, 1>>, outcome |-> "err"],
      [id |-> "E", name |-> <<"e", ".", "p", "n", "g">>, dims |-> <<2, 2, 1>>, outcome |-> "ok"],
      [id |-> "F", name |-> <<"f", ".", "t", "x", "t">>, dims |-> <<2, 2, 1>>, outcome |-> "ok"],
      [id |-> "G", name |-> <<"g", ".", "n", "i", "i", ".", "g", "z">>, dims |-> <<2, 2, 2>>, outcome |-> "ok"] }

FileById(id) == CHOOSE f \in LoaderFiles : f.id = id

UnusedCall ==
    [state |-> "unused", slot |-> "image", file |-> "A", task |-> FALSE,
     result |-> None, pendingAtIssue |-> {}]

\* create(...) initial state of useViewerStore
StoreInit ==
    [imageFile |-> None, maskFile |-> None, currentSlice |-> 0, totalSlices |-> 0,
     isLoading |-> FALSE, error |-> None,
     imageWindowLevel |-> [center |-> 128, width |-> 256],
     maskWindowLevel |-> [center |-> 128, width |-> 256],
     zoom |-> 1, pan |-> [x |-> 0, y |-> 0], viewMode |-> "2D"]

setLoading(s, loading) == [s EXCEPT !.isLoading = loading]
setError(s, error) == [s EXCEPT !.error = error]
\* setMaskFile rewinding the slice as an image load does
setMaskFile_ResetsSlice(s, file) ==
    [s EXCEPT !.maskFile = file, !.error = None, !.currentSlice = 0]

setMaskFile(s, file) == [s EXCEPT !.maskFile = file, !.error = None]
setCurrentSlice(s, slice) == [s EXCEPT !.currentSlice = slice]

\* setImageWindowLevel writing the mask's pair too
setImageWindowLevel_Both(s, windowLevel) ==
    [s EXCEPT !.imageWindowLevel = windowLevel, !.maskWindowLevel = windowLevel]

setImageWindowLevel(s, windowLevel) == [s EXCEPT !.imageWindowLevel = windowLevel]
setMaskWindowLevel(s, windowLevel) == [s EXCEPT !.maskWindowLevel = windowLevel]
setZoom(s, zoom) == [s EXCEPT !.zoom = zoom]
setViewMode(s, mode) == [s EXCEPT !.viewMode = mode]
resetView(s) ==
    [s EXCEPT !.currentSlice = 0,
              !.imageWindowLevel = [center |-> 128, width |-> 256],
              !.maskWindowLevel = [center |-> 128, width |-> 256],
              !.zoom = 1,
              !.pan = [x |-> 0, y |-> 0]]

\* dimensions[2] || 1
DepthOrOne(dims) == IF Len(dims) >= 3 /\ dims[3] # 0 THEN dims[3] ELSE 1

\* setImageFile(null) with the totals left as they were
setImageFileNull_ImageOnly(s) == [s EXCEPT !.imageFile = None, !.error = None]

\* setImageFile(null)
setImageFileNull(s) ==
    [s EXCEPT !.imageFile = None, !.totalSlices = 0, !.currentSlice = 0, !.error = None]

\* setImageFile up to its try: set({ isLoading: true, error: null })
setImageFileBegin(s) == [s EXCEPT !.isLoading = TRUE, !.error = None]

\* setImageFile once loadedFile is known: the two set calls of the try body
setImageFileResolved(s, loadedFile) ==
    LET volumetric ==
            /\ \/ loadedFile.fileType = "nifti"
               \/ (Len(loadedFile.dims) >= 3 /\ loadedFile.dims[3] > 1)
            /\ Len(loadedFile.dims) = 3
    IN [s EXCEPT !.imageFile = loadedFile,
                 !.totalSlices = DepthOrOne(loadedFile.dims),
                 !.currentSlice = 0,
                 !.isLoading = FALSE,
                 !.pan = [x |-> 0, y |-> 0],
                 !.zoom = 1,
                 !.viewMode = IF volumetric THEN "MPR" ELSE "2D"]

\* the catch of setImageFile dropping the image as well
setImageFileFailed_ClearsImage(s, message) ==
    [s EXCEPT !.error = message, !.isLoading = FALSE, !.imageFile = None,
              !.totalSlices = 0, !.currentSlice = 0]

\* the catch of setImageFile: set({ error: e.message, isLoading: false })
setImageFileFailed(s, message) == [s EXCEPT !.error = message, !.isLoading = FALSE]

\* setImageFile given an already decoded LoadedFile ('data' in file): no await
setImageFile(s, loadedFile) == setImageFileResolved(setImageFileBegin(s), loadedFile)

\* handleFileLoad after `await fileLoader.loadFile(...)` has settled: the try
\* body's store write or the catch, then the finally.  The continuation runs as
\* microtasks of the task that settled the promise, before any other callback.
ResumeHandleFileLoad(s, slot, settled, result) ==
    IF settled = "resolved"
    THEN IF slot = "image"
         THEN setLoading(setImageFile(s, result), FALSE)
         ELSE setLoading(setMaskFile(s, result), FALSE)
    ELSE setLoading(setError(s, result), FALSE)

LoadedFileOf(dataFile, nameFile, fileType) ==
    [src |-> dataFile.id, filename |-> nameFile.name, fileType |-> fileType,
     dims |-> dataFile.dims]
LoadError(kind, file) == [error |-> kind, src |-> file.id]

Pending == { c \in CallIds : calls[c].state = "pending" }

Settle(c, settled, result) ==
    /\ calls' = [calls EXCEPT ![c].state = settled, ![c].result = result,
                              ![c].task = FALSE]
    /\ store' = ResumeHandleFileLoad(store, calls[c].slot, settled, result)

\* handleFileLoad up to its await, with loadFile's synchronous part: the
\* decoder is chosen and started, or the unsupported-format error is thrown and
\* caught by the handler at once.  viaWorker selects the loader version whose
\* loadNumPyFile / loadDicomFile post the file to the shared worker.
IssueLoad(slot, f, viaWorker) ==
    LET c == nextCall
        decoder == loadFileDecoder(f.name)
        s1 == setError(setLoading(store, TRUE), None)
        fresh == [state |-> "pending", slot |-> slot, file |-> f.id, task |-> TRUE,
                  result |-> None, pendingAtIssue |-> Pending]
    IN
    /\ nextCall <= MaxCalls
    /\ nextCall' = nextCall + 1
    /\ IF decoder = "unsupported"
       THEN /\ calls' = [calls EXCEPT ![c] =
                           [fresh EXCEPT !.state = "rejected", !.task = FALSE,
                                         !.result = LoadError("Unsupported file format", f)]]
            /\ store' = ResumeHandleFileLoad(s1, slot, "rejected",
                                             LoadError("Unsupported file format", f))
            /\ UNCHANGED <<workerHandler, workerReading, mainInbox>>
       ELSE IF viaWorker /\ decoder \in {"numpy", "dicom"}
       THEN /\ calls' = [calls EXCEPT ![c] = [fresh EXCEPT !.task = FALSE]]
            /\ store' = s1
            /\ workerHandler' = c
            /\ workerReading' = workerReading \cup {c}
            /\ UNCHANGED mainInbox
       ELSE /\ calls' = [calls EXCEPT ![c] = fresh]
            /\ store' = s1
            /\ UNCHANGED <<workerHandler, workerReading, mainInbox>>

\* FileUpload.handleFileLoad for a single dropped file, FileReader loader
HandleFileLoad ==
    /\ \E slot \in Slots, f \in LoaderFiles : IssueLoad(slot, f, FALSE)
    /\ UNCHANGED <<detectVars, decodeVars, sliceVars, stackVars, viewVars>>

\* FileUpload.handleFileLoad for a single dropped file, shared-worker loader
HandleFileLoadWorker ==
    /\ \E slot \in Slots, f \in LoaderFiles : IssueLoad(slot, f, TRUE)
    /\ UNCHANGED <<detectVars, decodeVars, sliceVars, stackVars, viewVars>>

\* What the bytes of f make the FileReader / Image callback of its decoder do.
\* The shared-worker loader version has no gzip step in loadNiftiFile: a
\* .nii.gz file fails isNIFTI there and is rejected.
CallbackOutcome(f, viaWorker) ==
    IF viaWorker /\ endsWith(toLowerCase(f.name), ExtNiiGz) THEN "err" ELSE f.outcome

\* reader.onload / reader.onerror / img.onload / img.onerror of one load.
\* loadNumPyFile and loadDicomFile wrap the callback body in try / catch and
\* reject; loadNiftiFile and loadImageFile do not, so an exception there
\* escapes the callback and the promise is never settled.
ReaderDone(c, viaWorker) ==
    LET f == FileById(calls[c].file)
        decoder == loadFileDecoder(f.name)
        outcome == CallbackOutcome(f, viaWorker)
    IN
    /\ calls[c].state = "pending"
    /\ calls[c].task
    /\ CASE outcome = "ok" ->
                Settle(c, "resolved", LoadedFileOf(f, f, decoder))
         [] outcome = "err" ->
                Settle(c, "rejected", LoadError("decode", f))
         [] outcome = "throw" /\ decoder \in {"numpy", "dicom"} ->
                Settle(c, "rejected", LoadError("decode", f))
         [] OTHER ->
                /\ calls' = [calls EXCEPT ![c].task = FALSE]
                /\ UNCHANGED store
    /\ UNCHANGED <<nextCall, workerHandler, workerReading, mainInbox>>

ReaderCallback ==
    /\ \E c \in CallIds : ReaderDone(c, FALSE)
    /\ UNCHANGED <<detectVars, decodeVars, sliceVars, stackVars, viewVars>>

\* the same callbacks in the shared-worker loader version (NIfTI and raster
\* files are read on the main thread there too)
ReaderCallbackLegacy ==
    /\ \E c \in CallIds : ReaderDone(c, TRUE)
    /\ UNCHANGED <<detectVars, decodeVars, sliceVars, stackVars, viewVars>>

\* worker side: reader.onload inside self.onmessage for one posted file.  A
\* parsed file is posted back as {success, data}, a rejected one as {error};
\* an exception in the callback posts nothing.
WorkerReaderOnload ==
    /\ \E c \in workerReading :
        LET f == FileById(calls[c].file) IN
        /\ workerReading' = workerReading \ {c}
        /\ mainInbox' =
              CASE f.outcome = "ok" -> Append(mainInbox, [ok |-> TRUE, file |-> f.id])
                [] f.outcome = "err" -> Append(mainInbox, [ok |-> FALSE, file |-> f.id])
                [] OTHER -> mainInbox
    /\ UNCHANGED <<calls, nextCall, store, workerHandler>>
    /\ UNCHANGED <<detectVars, decodeVars, sliceVars, stackVars, viewVars>>

\* main side: this.worker.onmessage, the handler installed by the latest
\* loadNumPyFile / loadDicomFile call, receives the next posted result.
\* Settling an already settled promise has no effect.
WorkerOnMessage ==
    /\ mainInbox # <<>>
    /\ mainInbox' = Tail(mainInbox)
    /\ LET msg == Head(mainInbox)
           h == workerHandler
           hf == FileById(calls[h].file)
           mf == FileById(msg.file)
       IN IF calls[h].state = "pending"
          THEN IF msg.ok
               THEN Settle(h, "resolved", LoadedFileOf(mf, hf, loadFileDecoder(hf.name)))
               ELSE Settle(h, "rejected", LoadError("decode", mf))
          ELSE UNCHANGED <<calls, store>>
    /\ UNCHANGED <<nextCall, workerHandler, workerReading>>
    /\ UNCHANGED <<detectVars, decodeVars, sliceVars, stackVars, viewVars>>

LoaderIdle ==
    /\ calls = [c \in CallIds |-> UnusedCall]
    /\ nextCall = 1
    /\ store = StoreInit
    /\ workerHandler = 0
    /\ workerReading = {}
    /\ mainInbox = <<>>

(***************************************************************************)
(* Slice extraction: Renderer2D and MPRViewer                              *)
(***************************************************************************)
\* data[i] of a typed array, zero-based; the buffer is a sequence
At(data, i) == data[i + 1]

Min2(a, b) == IF a <= b THEN a ELSE b
Max2(a, b) == IF a >= b THEN a ELSE b
SetMin(S) == CHOOSE m \in S : \A v \in S : m <= v
SetMax(S) == CHOOSE m \in S : \A v \in S : m >= v

\* Math.round(num / den * 255) for num >= 0, den > 0
RoundScale255(num, den) == (510 * num + den) \div (2 * den)

\* (max > min) ? Math.round(((value - min) / (max - min)) * 255) : 0
\* range.kind is "num", or "nan" after an undefined sample, or "empty" when no
\* sample was scanned (min = Infinity, max = -Infinity): both compare false.
MinMaxNorm(value, range) ==
    IF range.kind = "num" /\ range.max > range.min
    THEN RoundScale255(value - range.min, range.max - range.min)
    ELSE 0

\* Renderer2D.extractSlice: the slice is the block starting at
\* sliceIndex * width * height; positions whose source index is not below
\* data.length are skipped and keep the 0 of the fresh Uint8Array; a negative
\* source index passes that test and reads undefined.  windowLevel is unused.
Renderer2DExtractSlice(data, dimensions, sliceIndex, windowLevel) ==
    LET width == dimensions[1]
        height == dimensions[2]
        sliceSize == width * height
        startIndex == sliceIndex * sliceSize
        scanned == { i \in 0..(sliceSize - 1) : startIndex + i < Len(data) }
        undefinedRead == \E i \in scanned : startIndex + i < 0
        values == { At(data, startIndex + i) : i \in { j \in scanned : startIndex + j >= 0 } }
        range == IF scanned = {} THEN [kind |-> "empty", min |-> 0, max |-> 0]
                 ELSE IF undefinedRead THEN [kind |-> "nan", min |-> 0, max |-> 0]
                 ELSE [kind |-> "num", min |-> SetMin(values), max |-> SetMax(values)]
    IN [sliceData |->
            [p \in 1..sliceSize |->
                IF (p - 1) \in scanned /\ startIndex + p - 1 >= 0
                THEN MinMaxNorm(At(data, startIndex + p - 1), range)
                ELSE 0],
        source |->
            [p \in 1..sliceSize |->
                IF (p - 1) \in scanned
                THEN [read |-> TRUE, index |-> startIndex + p - 1]
                ELSE [read |-> FALSE, index |-> 0]],
        range |-> range]

\* Math.max(0, Math.min(axisLength - 1, sliceIndex))
ClampIndex(axisLength, sliceIndex) == Max2(0, Min2(axisLength - 1, sliceIndex))

\* storing a sample into the Float32Array plane: exact up to 2^24 in magnitude,
\* which covers the Uint8Array / Uint16Array inputs of the declared signature
Float32Store(v) ==
    IF v >= -16777216 /\ v <= 16777216 THEN v ELSE 2 * (v \div 2)

\* data index read for plane position (y, z) of the sagittal plane at column x,
\* dropping the column: every row reads its first sample
SagittalSource_NoColumn(width, height, x, y, z) == z * width * height + y * width

\* data index read for plane position (y, z) of the sagittal plane at column x
SagittalSource(width, height, x, y, z) == z * width * height + y * width + x

\* MPRViewer.extractSlice: source index of plane position p (zero-based) in
\* the loop of each orientation, the index clamped first
MPRSourceIndex(dims, sliceIndex, orientation, p) ==
    LET width == dims[1]
        height == dims[2]
        depth == dims[3]
    IN CASE orientation = "axial" ->
              LET z == ClampIndex(depth, sliceIndex)
                  y == p \div width
                  x == p % width
              IN z * width * height + y * width + x
         [] orientation = "sagittal" ->
              LET x == ClampIndex(width, sliceIndex)
                  z == p \div height
                  y == p % height
              IN SagittalSource(width, height, x, y, z)
         [] orientation = "coronal" ->
              LET y == ClampIndex(height, sliceIndex)
                  z == p \div width
                  x == p % width
              IN z * width * height + y * width + x

MPRExtractSlice(data, dims, sliceIndex, orientation) ==
    LET width == dims[1]
        height == dims[2]
        depth == dims[3]
        sliceWidth == IF orientation = "sagittal" THEN height ELSE width
        sliceHeight == IF orientation = "axial" THEN height ELSE depth
    IN [sliceData |->
            [p \in 1..(sliceWidth * sliceHeight) |->
                Float32Store(At(data, MPRSourceIndex(dims, sliceIndex, orientation, p - 1)))],
        source |->
            [p \in 1..(sliceWidth * sliceHeight) |->
                [read |-> TRUE,
                 index |-> MPRSourceIndex(dims, sliceIndex, orientation, p - 1)]],
        sliceWidth |-> sliceWidth,
        sliceHeight |-> sliceHeight]

\* MPRViewer.renderView: min / max of the plane, then the grey level written to
\* the canvas for each sample
MPRRenderView(data, dims, sliceIndex, orientation) ==
    LET plane == MPRExtractSlice(data, dims, sliceIndex, orientation)
        values == { plane.sliceData[p] : p \in DOMAIN plane.sliceData }
        range == [kind |-> "num", min |-> SetMin(values), max |-> SetMax(values)]
    IN [plane EXCEPT !.sliceData = plane.sliceData] @@
       [pixels |-> [p \in DOMAIN plane.sliceData |-> MinMaxNorm(plane.sliceData[p], range)],
        range |-> range]

Orientations == {"axial", "sagittal", "coronal"}

\* Volumes: data[z*W*H + y*W + x] = x + y*W + z*W*H ("ramp"), fifty times that
\* ("steps"), and the 4 x 4 x 1 buffer of zeros with data[5] = 200.
SliceDims == { <<w, h, d>> : w \in 1..MaxDim, h \in 1..MaxDim, d \in 1..MaxDim }
RampVolume(dims, step) ==
    [dims |-> dims, data |-> [i \in 1..(dims[1] * dims[2] * dims[3]) |-> step * (i - 1)]]
SpikeVolume ==
    [dims |-> <<4, 4, 1>>, data |-> [i \in 1..16 |-> IF i = 6 THEN 200 ELSE 0]]
SliceVolumes ==
    { RampVolume(dims, step) : dims \in SliceDims, step \in {1, 50} } \cup {SpikeVolume}
SliceWindowLevels == { [center |-> 128, width |-> 256], [center |-> 100, width |-> 200] }

InitSlice ==
    /\ sliceIn \in [volume : SliceVolumes, index : (-1)..MaxDim,
                    orientation : Orientations, windowLevel : SliceWindowLevels]
    /\ out2D = None
    /\ outMPR = None

\* Renderer2D.renderSlice: the bytes written to the image canvas
RenderSlice ==
    /\ out2D = None
    /\ out2D' = Renderer2DExtractSlice(sliceIn.volume.data, sliceIn.volume.dims,
                                       sliceIn.index, sliceIn.windowLevel)
    /\ UNCHANGED <<sliceIn, outMPR>>
    /\ UNCHANGED <<loaderVars, detectVars, decodeVars, stackVars, viewVars>>

\* MPRViewer.renderView for one plane
RenderView ==
    /\ outMPR = None
    /\ outMPR' = MPRRenderView(sliceIn.volume.data, sliceIn.volume.dims,
                               sliceIn.index, sliceIn.orientation)
    /\ UNCHANGED <<sliceIn, out2D>>
    /\ UNCHANGED <<loaderVars, detectVars, decodeVars, stackVars, viewVars>>

(***************************************************************************)
(* Decoders (FileReader loader version), applied to one file image         *)
(***************************************************************************)
\* steps: the reads and parses the callback performed, in order; dataOffset:
\* the byte offset the typed array was created at
Resolved(fileType, kind, length, dims) ==
    [status |-> "resolved", fileType |-> fileType, kind |-> kind,
     length |-> length, dims |-> dims, error |-> "none",
     steps |-> <<>>, dataOffset |-> 0]
Rejected(error) ==
    [status |-> "rejected", fileType |-> "none", kind |-> "none",
     length |-> 0, dims |-> <<>>, error |-> error,
     steps |-> <<>>, dataOffset |-> 0]
\* an exception escaped the callback: the promise stays pending
NeverSettled ==
    [status |-> "pending", fileType |-> "none", kind |-> "none",
     length |-> 0, dims |-> <<>>, error |-> "none",
     steps |-> <<>>, dataOffset |-> 0]
Performed(result, steps, dataOffset) ==
    [result EXCEPT !.steps = steps, !.dataOffset = dataOffset]

\* BYTES_PER_ELEMENT of the typed array of each element kind
BytesPerElement(kind) ==
    CASE kind = "uint8" -> 1
      [] kind \in {"uint16", "int16"} -> 2
      [] kind \in {"float32", "int32"} -> 4
      [] kind = "float64" -> 8

\* the dtype chain of loadNumPyFile; anything else is read as Uint8Array
NumPyKind(descr) ==
    CASE descr = "<u2" -> "uint16"
      [] descr = "<u1" -> "uint8"
      [] descr = "<f4" -> "float32"
      [] descr = "<i4" -> "int32"
      [] descr = "<i2" -> "int16"
      [] descr = "<f8" -> "float64"
      [] OTHER -> "uint8"

\* bytes 8..11 of the file as the header-length field of each format version:
\* getUint16(8, true) and headerStart 10, or getUint32(8, true) and 12
NumPyHeaderLength(major, lenBytes) ==
    IF major = 1 THEN lenBytes[1] + 256 * lenBytes[2]
    ELSE lenBytes[1] + 256 * lenBytes[2] + 65536 * lenBytes[3] + 16777216 * lenBytes[4]
NumPyHeaderStart(major) == IF major = 1 THEN 10 ELSE 12

\* the padding taken without its final % 16: an aligned offset moves on by 16
NumPyDataOffset_AlwaysPads(headerStart, headerLength) ==
    LET dataOffset == headerStart + headerLength
    IN dataOffset + (16 - (dataOffset % 16))

\* dataOffset + (16 - (dataOffset % 16)) % 16
NumPyDataOffset(headerStart, headerLength) ==
    LET dataOffset == headerStart + headerLength
        padding == (16 - (dataOffset % 16)) % 16
    IN dataOffset + padding

\* a header neither parse can read given the shape of a single pixel
NumPyHeaderObj_DefaultShape(header) ==
    IF header.strict \/ header.lenient
    THEN [parsed |-> TRUE, hasShape |-> header.hasShape, shape |-> header.shape,
          descr |-> header.descr]
    ELSE [parsed |-> TRUE, hasShape |-> TRUE, shape |-> <<1, 1>>, descr |-> "<u1"]

\* the header text as its two parses see it: the JSON.parse of the rewritten
\* text, and the Function('return ...') evaluation tried when that throws
NumPyHeaderObj(header) ==
    IF header.strict
    THEN [parsed |-> TRUE, hasShape |-> header.hasShape, shape |-> header.shape,
          descr |-> header.descr]
    ELSE IF header.lenient
    THEN [parsed |-> TRUE, hasShape |-> header.hasShape, shape |-> header.shape,
          descr |-> header.descr]
    ELSE [parsed |-> FALSE, hasShape |-> FALSE, shape |-> <<>>, descr |-> "none"]

\* shape.length === 2 ? [shape[0], shape[1], 1] : shape
NumPyDimensions(shape) ==
    IF Len(shape) = 2 THEN <<shape[1], shape[2], 1>> ELSE shape

\* the char codes of '\x93NUMPY'
NumPyMagic == <<147, 78, 85, 77, 80, 89>>

\* magicStr !== '\x93NUMPY' passed over: every signature accepted
MagicMatches_AnySignature(magic) == TRUE

\* String.fromCharCode(...magic) === '\x93NUMPY'
MagicMatches(magic) == magic = NumPyMagic

\* reader.onload of loadNumPyFile.  A RangeError of a DataView read or of a
\* typed-array constructor is caught and rejected as 'Failed to parse NumPy'.
loadNumPyFile(f) ==
    LET headerStart == NumPyHeaderStart(f.major)
        headerLength == NumPyHeaderLength(f.major, f.lenBytes)
        headerObj == NumPyHeaderObj(f.header)
        actualDataOffset == NumPyDataOffset(headerStart, headerLength)
        kind == NumPyKind(headerObj.descr)
        remaining == f.byteLength - actualDataOffset
        parses == IF f.header.strict THEN <<"strict">> ELSE <<"strict", "lenient">>
        toVersion == <<"magic", "version">>
        toLength == toVersion \o <<"headerLength">>
        toHeader == toLength \o <<"header">>
        toParse == toHeader \o parses
    IN
    IF f.byteLength < 6 THEN Performed(Rejected("Failed to parse NumPy"), <<"magic">>, 0)
    ELSE IF ~MagicMatches(f.magic)
    THEN Performed(Rejected("Invalid NumPy file format"), <<"magic">>, 0)
    ELSE IF f.byteLength < 7 THEN Performed(Rejected("Failed to parse NumPy"), toVersion, 0)
    ELSE IF f.major \notin {1, 2}
    THEN Performed(Rejected("Unsupported NumPy version"), toVersion, 0)
    ELSE IF f.byteLength < NumPyHeaderStart(f.major)
    THEN Performed(Rejected("Failed to parse NumPy"), toLength, 0)
    ELSE IF headerStart + headerLength > f.byteLength
    THEN Performed(Rejected("Failed to parse NumPy"), toHeader, 0)
    ELSE IF ~headerObj.parsed
    THEN Performed(Rejected("Could not robustly parse NumPy header"), toParse, 0)
    ELSE IF ~headerObj.hasShape \/ headerObj.descr = "none"
    THEN Performed(Rejected("Could not parse NumPy header"), toParse, 0)
    ELSE IF remaining < 0 \/ remaining % BytesPerElement(kind) # 0
    THEN Performed(Rejected("Failed to parse NumPy"), toParse \o <<"data">>, actualDataOffset)
    ELSE Performed(Resolved("numpy", kind, remaining \div BytesPerElement(kind),
                            NumPyDimensions(headerObj.shape)),
                   toParse \o <<"data">>, actualDataOffset)

\* reader.onload of loadDicomFile.  rows / columns are 0 when the element is
\* absent (uint16 returns undefined) or zero; samplesPerPixel || 1.
loadDicomFile(f) ==
    IF ~f.parses THEN Rejected("Failed to parse DICOM")
    ELSE
    LET rows == f.rows
        columns == f.columns
        samplesPerPixel == IF f.samplesPerPixel = 0 THEN 1 ELSE f.samplesPerPixel
        kind == IF f.bitsAllocated = 16 THEN "uint16" ELSE "uint8"
        count == rows * columns * samplesPerPixel
    IN
    IF rows = 0 \/ columns = 0 \/ ~f.hasPixelData
    THEN Rejected("Missing DICOM image data or dimensions")
    ELSE IF \/ f.dataOffset % BytesPerElement(kind) # 0
            \/ f.dataOffset + count * BytesPerElement(kind) > f.byteLength
    THEN Rejected("Failed to parse DICOM")
    ELSE Resolved("dicom", kind, count, <<rows, columns, 1>>)

\* Worker loader version: reader.onload of the 'dicom' branch of the worker's
\* self.onmessage, and the this.worker.onmessage of loadDicomFile that
\* receives what it posts.  The callback has no try: a RangeError of a typed
\* array or DataView read posts nothing and the promise stays pending.  Rows
\* and columns are the 16-bit words at the fixed offsets 0x28 and 0x26, the
\* pixel data every byte from 0x200 on as Uint16Array.
workerDicomParse(f) ==
    IF f.byteLength < 128 + 4 THEN NeverSettled
    ELSE IF ~f.dicm THEN Rejected("Invalid DICOM file format")
    ELSE IF f.byteLength < 338 + 2 THEN NeverSettled
    ELSE IF f.byteLength < 512 \/ (f.byteLength - 512) % 2 # 0 THEN NeverSettled
    ELSE LET rows == f.wordAt28
             columns == f.wordAt26
         IN Performed(Resolved("dicom", "uint16", (f.byteLength - 512) \div 2,
                               <<columns, rows, 1>>),
                      <<>>, 512)

\* the datatypeCode switch of loadNiftiFile
NiftiKind(datatypeCode) ==
    CASE datatypeCode = 2 -> "uint8"
      [] datatypeCode = 512 -> "uint16"
      [] datatypeCode = 4 -> "int16"
      [] datatypeCode = 16 -> "float32"
      [] OTHER -> "float32"

\* the gzip step of the worker loader version: none
NiftiNeedsInflate_Never(name) == FALSE

\* file.name.toLowerCase().endsWith('.nii.gz')
NiftiNeedsInflate(name) == endsWith(toLowerCase(name), ExtNiiGz)

\* reader.onload of loadNiftiFile.  readImage returns the bytes of
\* dims[1..3] x dims[4] voxels of bitsPerVoxel each, or as many as the file
\* holds; the typed-array constructor throws on a byte count that is not a
\* multiple of its element size, outside any try.
loadNiftiFile(f) ==
    LET inflate == NiftiNeedsInflate(f.name)
        before == IF inflate THEN <<"inflate">> ELSE <<>>
        \* nifti.isNIFTI(arrayBuffer): the signature of the inflated image, or
        \* of the bytes as read, which a gzip stream does not carry
        isNIFTI == IF inflate THEN f.isNifti ELSE ~f.inflates /\ f.isNifti
        kind == NiftiKind(f.datatypeCode)
        timeDim == IF f.dim4 = 0 THEN 1 ELSE f.dim4
        imageSize == f.dims[1] * f.dims[2] * f.dims[3] * timeDim * (f.bitsPerVoxel \div 8)
        imageBytes == IF f.payloadBytes < imageSize THEN f.payloadBytes ELSE imageSize
    IN
    IF inflate /\ ~f.inflates
    THEN Performed(Rejected("Failed to decompress .nii.gz file"), before, 0)
    ELSE IF ~isNIFTI
    THEN Performed(Rejected("File is not in NIfTI format"), before \o <<"magic">>, 0)
    ELSE IF imageBytes % BytesPerElement(kind) # 0
    THEN Performed(NeverSettled, before \o <<"magic", "header", "image">>, 0)
    ELSE Performed(Resolved("nifti", kind, imageBytes \div BytesPerElement(kind), f.dims),
                   before \o <<"magic", "header", "image">>, 0)

\* img.onload / img.onerror of loadImageFile: one grey byte per RGBA pixel
loadImageFile(f) ==
    IF ~f.loads THEN Rejected("Failed to load image")
    ELSE IF ~f.hasContext THEN Rejected("Could not get canvas context")
    ELSE Resolved("image", "uint8", (4 * f.width * f.height) \div 4,
                  <<f.width, f.height, 1>>)

NumPyHeaders ==
    { [strict |-> TRUE,  lenient |-> TRUE,  hasShape |-> TRUE , shape |-> <<2, 2>>, descr |-> "<u1"],
      [strict |-> TRUE,  lenient |-> TRUE,  hasShape |-> TRUE , shape |-> <<2, 3, 2>>, descr |-> "<u2"],
      [strict |-> FALSE, lenient |-> TRUE,  hasShape |-> TRUE , shape |-> <<4>>, descr |-> "<f4"],
      [strict |-> FALSE, lenient |-> FALSE, hasShape |-> TRUE , shape |-> <<2, 2>>, descr |-> "<u1"],
      [strict |-> TRUE,  lenient |-> TRUE,  hasShape |-> FALSE, shape |-> <<>>, descr |-> "<u1"],
      [strict |-> TRUE,  lenient |-> TRUE,  hasShape |-> TRUE , shape |-> <<3, 2>>, descr |-> "|b1"],
      [strict |-> TRUE,  lenient |-> TRUE,  hasShape |-> TRUE , shape |-> <<1, 2, 1, 2>>, descr |-> "<i2"],
      [strict |-> TRUE,  lenient |-> TRUE,  hasShape |-> TRUE , shape |-> <<2, 1, 2>>, descr |-> "<f8"],
      [strict |-> FALSE, lenient |-> TRUE,  hasShape |-> TRUE , shape |-> <<2, 2>>, descr |-> "none"] }
\* the char codes of 'NOTNPY'
NotNpyMagic == <<78, 79, 84, 78, 80, 89>>
NumPyFiles ==
    [format : {"numpy"}, magic : {NumPyMagic, NotNpyMagic}, major : {1, 2, 3},
     lenBytes : { <<54, 0, 123, 39>>, <<50, 0, 123, 39>>, <<52, 0, 0, 0>>, <<50, 0, 0, 0>> },
     header : NumPyHeaders, byteLength : {5, 64, 67, 68, 69, 76, 96}]
\* dicm: 'DICM' at byte 128, without which parseDicom throws; wordAt26 and
\* wordAt28: the preamble bytes the worker version reads as columns and rows
DicomFiles ==
    { f \in [format : {"dicom"}, dicm : BOOLEAN, parses : BOOLEAN,
              rows : {0, 2, 3}, columns : {0, 2},
              samplesPerPixel : {0, 1, 3}, bitsAllocated : {8, 16},
              hasPixelData : BOOLEAN, dataOffset : {200, 201},
              wordAt26 : {0, 2}, wordAt28 : {0, 3},
              byteLength : {100, 204, 212, 236, 516}] :
        f.parses => (f.dicm /\ f.byteLength >= 132) }
\* inflates: the bytes are a gzip stream pako.inflate accepts; isNifti: the
\* image, as stored or inside the gzip stream, carries the NIfTI signature
NiftiNames ==
    { <<"x", ".", "n", "i", "i">>, <<"x", ".", "n", "i", "i", ".", "g", "z">>,
      <<"x", ".", "N", "I", "I", ".", "G", "Z">> }
NiftiFiles ==
    [format : {"nifti"}, name : NiftiNames, inflates : BOOLEAN, isNifti : BOOLEAN,
     dims : { <<2, 2, 2>>, <<3, 2, 1>> }, dim4 : {0, 1, 2},
     datatypeCode : {2, 4, 16, 64, 512}, bitsPerVoxel : {8, 16, 32, 64},
     payloadBytes : {7, 64}]
RasterFiles ==
    [format : {"image"}, loads : BOOLEAN, hasContext : BOOLEAN,
     width : 1..3, height : 1..2]

InitDecode ==
    /\ decIn \in NumPyFiles \cup DicomFiles \cup NiftiFiles \cup RasterFiles
    /\ decOut = None

DecodeNumPy ==
    /\ decOut = None /\ decIn.format = "numpy"
    /\ decOut' = loadNumPyFile(decIn)
    /\ UNCHANGED decIn
    /\ UNCHANGED <<loaderVars, detectVars, sliceVars, stackVars, viewVars>>

DecodeDicom ==
    /\ decOut = None /\ decIn.format = "dicom"
    /\ decOut' = loadDicomFile(decIn)
    /\ UNCHANGED decIn
    /\ UNCHANGED <<loaderVars, detectVars, sliceVars, stackVars, viewVars>>

\* loadDicomFile of the worker loader version, with the worker otherwise idle
DecodeDicomWorker ==
    /\ decOut = None /\ decIn.format = "dicom"
    /\ decOut' = workerDicomParse(decIn)
    /\ UNCHANGED decIn
    /\ UNCHANGED <<loaderVars, detectVars, sliceVars, stackVars, viewVars>>

DecodeNifti ==
    /\ decOut = None /\ decIn.format = "nifti"
    /\ decOut' = loadNiftiFile(decIn)
    /\ UNCHANGED decIn
    /\ UNCHANGED <<loaderVars, detectVars, sliceVars, stackVars, viewVars>>

DecodeImage ==
    /\ decOut = None /\ decIn.format = "image"
    /\ decOut' = loadImageFile(decIn)
    /\ UNCHANGED decIn
    /\ UNCHANGED <<loaderVars, detectVars, sliceVars, stackVars, viewVars>>

(***************************************************************************)
(* Stack assembler                                                         *)
(***************************************************************************)
\* Collation order of String.prototype.localeCompare (default collator) on the
\* characters of the file names: punctuation, then digits, then letters; case
\* is a lower-level difference, lower case first.
CollationOrder ==
    << ".", "0", "1", "2", "3", "4", "5", "6", "7", "8", "9",
       "a", "b", "c", "d", "e", "f", "g", "h", "i", "j", "k", "l", "m",
       "n", "o", "p", "q", "r", "s", "t", "u", "v", "w", "x", "y", "z" >>
PrimaryWeight(c) ==
    CHOOSE i \in DOMAIN CollationOrder : CollationOrder[i] = LowerChar(c)
CaseWeight(c) == IF c \in DOMAIN UpperToLower THEN 1 ELSE 0

RECURSIVE CompareSeq(_, _)
\* -1, 0 or 1: lexicographic comparison of two sequences of weights
CompareSeq(a, b) ==
    IF a = <<>> /\ b = <<>> THEN 0
    ELSE IF a = <<>> THEN -1
    ELSE IF b = <<>> THEN 1
    ELSE IF Head(a) < Head(b) THEN -1
    ELSE IF Head(a) > Head(b) THEN 1
    ELSE CompareSeq(Tail(a), Tail(b))

\* a.localeCompare(b)
localeCompare(a, b) ==
    LET primary == CompareSeq([i \in DOMAIN a |-> PrimaryWeight(a[i])],
                              [i \in DOMAIN b |-> PrimaryWeight(b[i])])
    IN IF primary # 0 THEN primary
       ELSE CompareSeq([i \in DOMAIN a |-> CaseWeight(a[i])],
                       [i \in DOMAIN b |-> CaseWeight(b[i])])

\* x placed after every element of the sorted sequence that does not compare
\* greater than it
InsertSorted(sorted, x) ==
    LET upTo == Cardinality({ i \in DOMAIN sorted : localeCompare(sorted[i].name, x.name) <= 0 })
    IN SubSeq(sorted, 1, upTo) \o <<x>> \o SubSeq(sorted, upTo + 1, Len(sorted))

\* files.slice() with no sort: the input order kept
SortByName_InputOrder(files) == files

RECURSIVE SortByName(_)
\* files.slice().sort((a, b) => a.name.localeCompare(b.name)); the sort is stable
SortByName(files) ==
    IF files = <<>> THEN <<>>
    ELSE InsertSorted(SortByName(SubSeq(files, 1, Len(files) - 1)), files[Len(files)])

\* file.name.toLowerCase().split('.').pop()
LastSegment(name) ==
    LET lower == toLowerCase(name)
        dots == { i \in DOMAIN lower : lower[i] = "." }
    IN IF dots = {} THEN lower ELSE SubSeq(lower, SetMax(dots) + 1, Len(lower))

\* the decoder loadImageStack picks for an extension
StackDecoder(ext) ==
    IF ext = <<"n", "p", "y">> THEN "numpy"
    ELSE IF ext = <<"d", "c", "m">> \/ ext = <<"d", "i", "c", "o", "m">> THEN "dicom"
    ELSE IF ext = <<"p", "n", "g">> \/ ext = <<"j", "p", "g">>
            \/ ext = <<"j", "p", "e", "g">> THEN "image"
    ELSE "unsupported"

\* the typed array chosen for the volume: Uint16Array if some slice is one,
\* else Float32Array if some slice is one, else Uint8Array
StackVolumeKind(slices) ==
    IF \E i \in DOMAIN slices : slices[i].kind = "uint16" THEN "uint16"
    ELSE IF \E i \in DOMAIN slices : slices[i].kind = "float32" THEN "float32"
    ELSE "uint8"

\* volume[k] = v for a volume of the given kind: integer kinds wrap
StoreAs(kind, v) ==
    CASE kind = "uint8" -> v % 256
      [] kind = "uint16" -> v % 65536
      [] OTHER -> Float32Store(v)

\* slice.data[i], 0 standing for the undefined read past a short slice
SliceSample(slice, i) == IF i < Len(slice.data) THEN At(slice.data, i) ELSE 0

\* holes: the zero-based positions of the volume that were assigned
\* slice.data[i] for an i past the end of the slice (undefined: stored as 0 in
\* an integer volume, NaN in a Float32Array one; pixelData holds 0 there)
StackRejected(error) ==
    [status |-> "rejected", error |-> error, pixelData |-> <<>>, kind |-> "none",
     dims |-> <<>>, stackedFrom |-> <<>>, fileType |-> "none", holes |-> {}]

\* the size comparison left out
SameSize_Unchecked(slices, width, height) == TRUE

\* slices.every(s => s.width === width && s.height === height)
SameSize(slices, width, height) ==
    \A i \in DOMAIN slices : slices[i].width = width /\ slices[i].height = height

\* loadImageStack: sort, decode in order (the first unsupported or undecodable
\* file fails the call), compare sizes with the first slice, copy
loadImageStack(files) ==
    LET sortedFiles == SortByName(files)
        n == Len(sortedFiles)
        bad == { i \in 1..n : \/ StackDecoder(LastSegment(sortedFiles[i].name)) = "unsupported"
                               \/ ~sortedFiles[i].decodes }
    IN
    IF bad # {}
    THEN IF StackDecoder(LastSegment(sortedFiles[SetMin(bad)].name)) = "unsupported"
         THEN StackRejected("Unsupported file format in stack")
         ELSE StackRejected("decode")
    ELSE IF n = 0 THEN StackRejected("TypeError")
    ELSE
    LET slices == [i \in 1..n |->
                      [data |-> sortedFiles[i].data, kind |-> sortedFiles[i].kind,
                       width |-> sortedFiles[i].dims[1], height |-> sortedFiles[i].dims[2]]]
        width == slices[1].width
        height == slices[1].height
        kind == StackVolumeKind(slices)
    IN
    IF ~SameSize(slices, width, height)
    THEN StackRejected("All slices must have the same width and height")
    ELSE [status |-> "resolved", error |-> "none",
          pixelData |->
              [k \in 1..(width * height * n) |->
                  StoreAs(kind, SliceSample(slices[((k - 1) \div (width * height)) + 1],
                                            (k - 1) % (width * height)))],
          kind |-> kind,
          dims |-> <<width, height, n>>,
          stackedFrom |-> [i \in 1..n |-> sortedFiles[i].name],
          fileType |-> "image",
          holes |-> { k \in 0..(width * height * n - 1) :
                        k % (width * height) >=
                            Len(slices[(k \div (width * height)) + 1].data) }]

\* Files of a dropped folder, as their decoders return them.  Two files of
\* different sub-folders share the name a.png; s.npy holds fewer samples than
\* its shape states, v.npy is a two-slice volume, x.png does not decode.
StackFilePool ==
    { [name |-> <<"a", ".", "p", "n", "g">>, decodes |-> TRUE, kind |-> "uint8",
       dims |-> <<2, 1, 1>>, data |-> <<10, 11>>],
      [name |-> <<"a", ".", "p", "n", "g">>, decodes |-> TRUE, kind |-> "uint8",
       dims |-> <<2, 1, 1>>, data |-> <<20, 21>>],
      [name |-> <<"B", ".", "n", "p", "y">>, decodes |-> TRUE, kind |-> "float32",
       dims |-> <<2, 1, 1>>, data |-> <<300, 301>>],
      [name |-> <<"b", ".", "d", "c", "m">>, decodes |-> TRUE, kind |-> "uint16",
       dims |-> <<2, 1, 1>>, data |-> <<1000, 1001>>],
      [name |-> <<"c", "1", ".", "n", "p", "y">>, decodes |-> TRUE, kind |-> "int16",
       dims |-> <<2, 1, 1>>, data |-> <<-1, 5>>],
      [name |-> <<"c", ".", "j", "p", "g">>, decodes |-> TRUE, kind |-> "uint8",
       dims |-> <<1, 2, 1>>, data |-> <<7, 8>>],
      [name |-> <<"d", ".", "n", "i", "i">>, decodes |-> TRUE, kind |-> "uint8",
       dims |-> <<2, 1, 1>>, data |-> <<1, 2>>],
      [name |-> <<"s", ".", "n", "p", "y">>, decodes |-> TRUE, kind |-> "uint8",
       dims |-> <<2, 1, 1>>, data |-> <<9>>],
      [name |-> <<"v", ".", "n", "p", "y">>, decodes |-> TRUE, kind |-> "uint8",
       dims |-> <<2, 1, 2>>, data |-> <<1, 2, 3, 4>>],
      [name |-> <<"x", ".", "p", "n", "g">>, decodes |-> FALSE, kind |-> "uint8",
       dims |-> <<2, 1, 1>>, data |-> <<>>] }

\* the lists of 1..MaxStack distinct files of the pool
StackLists ==
    UNION { { fs \in [1..n -> StackFilePool] : \A i, j \in 1..n : fs[i] = fs[j] => i = j }
            : n \in 1..MaxStack }
Reorderings(fs) ==
    { [i \in DOMAIN fs |-> fs[perm[i]]] : perm \in Permutations(DOMAIN fs) }

InitStack ==
    /\ stackIn \in StackLists
    /\ stackAlt \in Reorderings(stackIn)
    /\ stackOut = None
    /\ stackAltOut = None

\* fileLoader.loadImageStack(files) on the dropped list
RunLoadImageStack ==
    /\ stackOut = None
    /\ stackOut' = loadImageStack(stackIn)
    /\ UNCHANGED <<stackIn, stackAlt, stackAltOut>>
    /\ UNCHANGED <<loaderVars, detectVars, decodeVars, sliceVars, viewVars>>

\* fileLoader.loadImageStack(files) on the same files in another order
RunLoadImageStackReordered ==
    /\ stackAltOut = None
    /\ stackAltOut' = loadImageStack(stackAlt)
    /\ UNCHANGED <<stackIn, stackAlt, stackOut>>
    /\ UNCHANGED <<loaderVars, detectVars, decodeVars, sliceVars, viewVars>>

(***************************************************************************)
(* Window/level mapping: applyWindowLevel of Renderer2D and of MPRViewer     *)
(***************************************************************************)
\* a JavaScript number that is the ratio num / den (den > 0), or NaN
Num(num, den) == [nan |-> FALSE, num |-> num, den |-> den]
NaN == [nan |-> TRUE, num |-> 0, den |-> 1]

\* the mapping turned over: 255 at the window's lower end, 0 at its upper end
Renderer2DApplyWindowLevel_Inverted(pixelValue, min, max, windowLevel) ==
    LET windowMin2 == 2 * windowLevel.center - windowLevel.width
        windowMax2 == 2 * windowLevel.center + windowLevel.width
    IN IF 2 * pixelValue <= windowMin2 THEN Num(255, 1)
       ELSE IF 2 * pixelValue >= windowMax2 THEN Num(0, 1)
       ELSE Num(255 - RoundScale255(2 * pixelValue - windowMin2, windowMax2 - windowMin2), 1)

\* Renderer2D.applyWindowLevel(pixelValue, _min, _max, windowLevel); the window
\* ends are kept doubled, center - wl / 2 being a half-integer for odd wl
Renderer2DApplyWindowLevel(pixelValue, min, max, windowLevel) ==
    LET windowMin2 == 2 * windowLevel.center - windowLevel.width
        windowMax2 == 2 * windowLevel.center + windowLevel.width
    IN IF 2 * pixelValue <= windowMin2 THEN Num(0, 1)
       ELSE IF 2 * pixelValue >= windowMax2 THEN Num(255, 1)
       ELSE Num(RoundScale255(2 * pixelValue - windowMin2, windowMax2 - windowMin2), 1)

\* MPRViewer.applyWindowLevel(pixelValue, min, max, windowLevel): the result is
\* not rounded.  With upper = lower the division gives Infinity, -Infinity or
\* NaN (0 / 0); Math.max(0, Math.min(255, x)) clamps the infinities and
\* returns NaN for NaN.
MPRApplyWindowLevel(pixelValue, min, max, windowLevel) ==
    IF max = min THEN (IF pixelValue > 0 THEN Num(255, 1) ELSE Num(0, 1))
    ELSE
    LET lower2 == 2 * windowLevel.center - windowLevel.width
        upper2 == 2 * windowLevel.center + windowLevel.width
        num == (2 * pixelValue - lower2) * 255
        den == upper2 - lower2
    IN IF den = 0
       THEN (IF num > 0 THEN Num(255, 1) ELSE IF num < 0 THEN Num(0, 1) ELSE NaN)
       ELSE IF num <= 0 THEN Num(0, 1)
       ELSE IF num >= 255 * den THEN Num(255, 1)
       ELSE Num(num, den)

WLSamples == (-2)..MaxSample \cup {200}
WLWindows == [center : {0, 3, 128}, width : {0, 1, 4, 256}]
WLRanges == { [min |-> 0, max |-> 0], [min |-> 0, max |-> 6] }
NotApplied == [applied |-> FALSE]

InitWindowLevel ==
    /\ wlIn \in [v1 : WLSamples, v2 : WLSamples, range : WLRanges, windowLevel : WLWindows]
    /\ wlOut = [r2d |-> NotApplied, mpr |-> NotApplied]

\* Renderer2D.applyWindowLevel on two samples of one slice
ApplyWindowLevel2D ==
    /\ ~wlOut.r2d.applied
    /\ wlOut' = [wlOut EXCEPT !.r2d =
          [applied |-> TRUE,
           first |-> Renderer2DApplyWindowLevel(wlIn.v1, wlIn.range.min, wlIn.range.max,
                                                wlIn.windowLevel),
           second |-> Renderer2DApplyWindowLevel(wlIn.v2, wlIn.range.min, wlIn.range.max,
                                                 wlIn.windowLevel)]]
    /\ UNCHANGED <<wlIn, storeOpVars, mouseVars, volumeVars>>
    /\ UNCHANGED <<loaderVars, detectVars, decodeVars, sliceVars, stackVars>>

\* MPRViewer.applyWindowLevel on two samples of one slice
ApplyWindowLevelMPR ==
    /\ ~wlOut.mpr.applied
    /\ wlOut' = [wlOut EXCEPT !.mpr =
          [applied |-> TRUE,
           first |-> MPRApplyWindowLevel(wlIn.v1, wlIn.range.min, wlIn.range.max,
                                         wlIn.windowLevel),
           second |-> MPRApplyWindowLevel(wlIn.v2, wlIn.range.min, wlIn.range.max,
                                          wlIn.windowLevel)]]
    /\ UNCHANGED <<wlIn, storeOpVars, mouseVars, volumeVars>>
    /\ UNCHANGED <<loaderVars, detectVars, decodeVars, sliceVars, stackVars>>

(***************************************************************************)
(* Mouse handling of the 2D canvas: Renderer2D.handleMouseDown               *)
(***************************************************************************)
setPan(s, x, y) == [s EXCEPT !.pan = [x |-> x, y |-> y]]

\* pointer: where the mouse is; buttonDown: the button is held; listening:
\* handleMouseMove / handleMouseUp of the latest mousedown are registered on
\* the document; isDragging, lastX, lastY: the variables of that closure
Pointers == [x : 0..MaxPointer, y : 0..MaxPointer]
DragInit ==
    [pointer |-> [x |-> 0, y |-> 0], buttonDown |-> FALSE, listening |-> FALSE,
     isDragging |-> FALSE, lastX |-> 0, lastY |-> 0, lastEvent |-> "none"]

\* mousedown on the canvas: handleMouseDown creates the closure and registers
\* its two listeners
MouseDown ==
    /\ ~drag.buttonDown
    /\ drag' = [drag EXCEPT !.buttonDown = TRUE, !.listening = TRUE,
                            !.isDragging = FALSE,
                            !.lastX = drag.pointer.x, !.lastY = drag.pointer.y,
                            !.lastEvent = "down"]
    /\ UNCHANGED <<wlVars, storeOpVars, volumeVars>>
    /\ UNCHANGED <<loaderVars, detectVars, decodeVars, sliceVars, stackVars>>

\* mousemove on the document to position e: handleMouseMove, if registered
MouseMove ==
    \E e \in Pointers :
        /\ e # drag.pointer
        /\ IF drag.listening /\ drag.isDragging
           THEN /\ store' = setPan(store, store.pan.x + (e.x - drag.lastX),
                                          store.pan.y + (e.y - drag.lastY))
                /\ drag' = [drag EXCEPT !.pointer = e, !.lastX = e.x, !.lastY = e.y,
                                        !.lastEvent = "move"]
           ELSE /\ store' = store
                /\ drag' = [drag EXCEPT !.pointer = e, !.lastEvent = "move"]
        /\ UNCHANGED <<calls, nextCall, workerHandler, workerReading, mainInbox>>
        /\ UNCHANGED <<wlVars, storeOpVars, volumeVars>>
        /\ UNCHANGED <<detectVars, decodeVars, sliceVars, stackVars>>

\* mouseup on the document: handleMouseUp, if registered
MouseUp ==
    /\ drag.buttonDown
    /\ drag' = IF drag.listening
               THEN [drag EXCEPT !.buttonDown = FALSE, !.isDragging = TRUE,
                                 !.listening = FALSE, !.lastEvent = "up"]
               ELSE [drag EXCEPT !.buttonDown = FALSE, !.lastEvent = "up"]
    /\ UNCHANGED <<wlVars, storeOpVars, volumeVars>>
    /\ UNCHANGED <<loaderVars, detectVars, decodeVars, sliceVars, stackVars>>

(***************************************************************************)
(* Viewer store driven by the controls                                     *)
(***************************************************************************)
\* decoded files handed to the store; oned.npy has a one-entry shape
StoreFiles ==
    { [src |-> "V", filename |-> <<"v", ".", "n", "i", "i">>, fileType |-> "nifti",
       dims |-> <<2, 2, 2>>],
      [src |-> "P", filename |-> <<"p", ".", "p", "n", "g">>, fileType |-> "image",
       dims |-> <<2, 2, 1>>],
      [src |-> "O", filename |-> <<"o", ".", "n", "p", "y">>, fileType |-> "numpy",
       dims |-> <<4>>] }
\* raw Files handed to setImageFile, which loads them itself
StoreRawFiles == { f \in LoaderFiles : f.id \in {"B", "D"} }
Op(name) == [op |-> name]
OtherViews == <<wlVars, mouseVars, volumeVars>>
LoaderRest == <<calls, nextCall, workerHandler, workerReading, mainInbox>>

\* setImageFile(loadedFile), FileUpload.tsx line 30
StoreSetImageFile ==
    \E file \in StoreFiles :
        /\ store' = setImageFile(store, file)
        /\ storeOp' = Op("setImageFile")
        /\ UNCHANGED <<storeLoads, OtherViews, LoaderRest>>
        /\ UNCHANGED <<detectVars, decodeVars, sliceVars, stackVars>>

\* setImageFile(file) with a raw File, up to its await of fileLoader.loadFile
StoreSetImageFileBegin ==
    \E f \in StoreRawFiles :
        /\ f.id \notin storeLoads
        /\ store' = setImageFileBegin(store)
        /\ storeLoads' = storeLoads \cup {f.id}
        /\ storeOp' = Op("setImageFile.begin")
        /\ UNCHANGED <<OtherViews, LoaderRest>>
        /\ UNCHANGED <<detectVars, decodeVars, sliceVars, stackVars>>

\* the rest of that setImageFile, once loadFile has settled
StoreSetImageFileSettles ==
    \E id \in storeLoads :
        LET f == FileById(id) IN
        /\ storeLoads' = storeLoads \ {id}
        /\ IF f.outcome = "ok"
           THEN /\ store' = setImageFileResolved(store,
                                LoadedFileOf(f, f, loadFileDecoder(f.name)))
                /\ storeOp' = Op("setImageFile.resolved")
           ELSE /\ store' = setImageFileFailed(store, LoadError("decode", f))
                /\ storeOp' = Op("setImageFile.failed")
        /\ UNCHANGED <<OtherViews, LoaderRest>>
        /\ UNCHANGED <<detectVars, decodeVars, sliceVars, stackVars>>

\* setMaskFile(loadedFile), FileUpload.tsx line 32
StoreSetMaskFile ==
    \E file \in StoreFiles :
        /\ file.src = "P"
        /\ store' = setMaskFile(store, file)
        /\ storeOp' = Op("setMaskFile")
        /\ UNCHANGED <<storeLoads, OtherViews, LoaderRest>>
        /\ UNCHANGED <<detectVars, decodeVars, sliceVars, stackVars>>

\* clearFile of either upload area
StoreClearFile ==
    \E type \in Slots :
        /\ IF type = "image"
           THEN store' = setImageFileNull(store) /\ storeOp' = Op("clearImage")
           ELSE store' = setMaskFile(store, None) /\ storeOp' = Op("clearMask")
        /\ UNCHANGED <<storeLoads, OtherViews, LoaderRest>>
        /\ UNCHANGED <<detectVars, decodeVars, sliceVars, stackVars>>

Max0(a) == IF a > 0 THEN a ELSE 0

\* handleSliceChange: the slider, shown with an image, ranges over
\* 0 .. Math.max(0, totalSlices - 1)
StoreSliceChange ==
    \E slice \in 0..Max0(store.totalSlices - 1) :
        /\ store.imageFile # None
        /\ store' = setCurrentSlice(store, slice)
        /\ storeOp' = Op("slider")
        /\ UNCHANGED <<storeLoads, OtherViews, LoaderRest>>
        /\ UNCHANGED <<detectVars, decodeVars, sliceVars, stackVars>>

WLCenters == {40}
WLWidths == {80}

\* handleImageCenterChange / handleImageWidthChange
StoreImageWindowLevelChange ==
    /\ store.imageFile # None
    /\ \/ \E center \in WLCenters :
            store' = setImageWindowLevel(store,
                         [store.imageWindowLevel EXCEPT !.center = center])
       \/ \E width \in WLWidths :
            store' = setImageWindowLevel(store,
                         [store.imageWindowLevel EXCEPT !.width = width])
    /\ storeOp' = Op("imageWL")
    /\ UNCHANGED <<storeLoads, OtherViews, LoaderRest>>
    /\ UNCHANGED <<detectVars, decodeVars, sliceVars, stackVars>>

\* handleMaskCenterChange / handleMaskWidthChange
StoreMaskWindowLevelChange ==
    /\ store.imageFile # None /\ store.maskFile # None
    /\ \/ \E center \in WLCenters :
            store' = setMaskWindowLevel(store,
                         [store.maskWindowLevel EXCEPT !.center = center])
       \/ \E width \in WLWidths :
            store' = setMaskWindowLevel(store,
                         [store.maskWindowLevel EXCEPT !.width = width])
    /\ storeOp' = Op("maskWL")
    /\ UNCHANGED <<storeLoads, OtherViews, LoaderRest>>
    /\ UNCHANGED <<detectVars, decodeVars, sliceVars, stackVars>>

\* setZoom, setPan and setViewMode with one value other than the initial one
StoreSetView ==
    /\ \/ store' = setZoom(store, 2) /\ storeOp' = Op("setZoom")
       \/ store' = setPan(store, 1, 1) /\ storeOp' = Op("setPan")
       \/ \E mode \in {"2D", "MPR", "3D"} :
            store' = setViewMode(store, mode) /\ storeOp' = Op("setViewMode")
    /\ UNCHANGED <<storeLoads, OtherViews, LoaderRest>>
    /\ UNCHANGED <<detectVars, decodeVars, sliceVars, stackVars>>

\* handleResetView
StoreResetView ==
    /\ store.imageFile # None
    /\ store' = resetView(store)
    /\ storeOp' = Op("resetView")
    /\ UNCHANGED <<storeLoads, OtherViews, LoaderRest>>
    /\ UNCHANGED <<detectVars, decodeVars, sliceVars, stackVars>>

(***************************************************************************)
(* Volume renderer hook                                                    *)
(***************************************************************************)
\* useState initial values of useVolumeRenderer
VolumeHookInit ==
    [volumeData |-> None, volumeInfo |-> None, isValid |-> FALSE]

RECURSIVE Product(_)
Product(dims) == IF dims = <<>> THEN 1 ELSE Head(dims) * Product(Tail(dims))

\* the min / max loop of loadVolume over a non-empty array
RECURSIVE ArrayMin(_)
ArrayMin(a) ==
    IF Len(a) = 1 THEN a[1]
    ELSE LET m == ArrayMin(Tail(a)) IN IF a[1] < m THEN a[1] ELSE m
RECURSIVE ArrayMax(_)
ArrayMax(a) ==
    IF Len(a) = 1 THEN a[1]
    ELSE LET m == ArrayMax(Tail(a)) IN IF a[1] > m THEN a[1] ELSE m

VolumeRejected(h) == [hook |-> [h EXCEPT !.isValid = FALSE], result |-> FALSE]

VolumeLengthMismatch_Unchecked(volumeArray, expectedLength) == FALSE
\* volumeArray.length !== expectedLength
VolumeLengthMismatch(volumeArray, expectedLength) ==
    Len(volumeArray) # expectedLength

\* loadVolume: the hook's next state and the value it returns
loadVolume(h, data) ==
    IF ~data.hasArray \/ Len(data.volumeArray) = 0 THEN VolumeRejected(h)
    ELSE IF ~data.hasDims \/ Len(data.dimensions) # 3 THEN VolumeRejected(h)
    ELSE LET width == data.dimensions[1]
             height == data.dimensions[2]
             depth == data.dimensions[3]
         IN IF width <= 0 \/ height <= 0 \/ depth <= 0 THEN VolumeRejected(h)
            ELSE IF VolumeLengthMismatch(data.volumeArray, width * height * depth)
                 THEN VolumeRejected(h)
            ELSE [hook |-> [volumeData |-> data,
                            volumeInfo |-> [min |-> ArrayMin(data.volumeArray),
                                            max |-> ArrayMax(data.volumeArray),
                                            dimensions |-> data.dimensions,
                                            voxelCount |-> Len(data.volumeArray)],
                            isValid |-> TRUE],
                  result |-> TRUE]

clearVolume(h) == [volumeData |-> None, volumeInfo |-> None, isValid |-> FALSE]

\* what the main viewer area of MedicalVolumeViewer renders
MainViewerArea(h) ==
    IF ~h.isValid THEN "placeholder"
    ELSE IF h.volumeData = None THEN "TypeError"
    ELSE "VTKVolumeRenderer3D"

\* voxel arrays of each length that matters, with distinct small values
Ramp(n) == [i \in 1..n |-> (3 * i) % 5]
VolumeLengths ==
    {0, 1, MaxVolDim, MaxVolDim * MaxVolDim, MaxVolDim * MaxVolDim * MaxVolDim,
     MaxVolDim * MaxVolDim * MaxVolDim - 1}
VolumeDims ==
    [1..3 -> 0..MaxVolDim]
        \cup {<<MaxVolDim, MaxVolDim>>, <<1, 1, 1, 1>>, <<-1, 1, 1>>, <<1, -1, -1>>}
VolumeInputs ==
    {[hasArray |-> TRUE, volumeArray |-> Ramp(n), hasDims |-> TRUE, dimensions |-> d] :
        n \in VolumeLengths, d \in VolumeDims}
    \cup {[hasArray |-> FALSE, volumeArray |-> <<>>, hasDims |-> TRUE, dimensions |-> d] :
        d \in VolumeDims}
    \cup {[hasArray |-> TRUE, volumeArray |-> Ramp(n), hasDims |-> FALSE, dimensions |-> <<>>] :
        n \in VolumeLengths}

VolumeMounted ==
    [hook |-> VolumeHookInit, lastCall |-> "none", data |-> None, returned |-> FALSE,
     view |-> MainViewerArea(VolumeHookInit)]

\* handleVolumeLoad / the initialVolumeData effect, then the render
VolumeLoad ==
    \E data \in VolumeInputs :
        LET r == loadVolume(volume.hook, data) IN
        /\ volume' = [hook |-> r.hook, lastCall |-> "loadVolume", data |-> data,
                      returned |-> r.result, view |-> MainViewerArea(r.hook)]
        /\ UNCHANGED <<wlVars, storeOpVars, mouseVars>>
        /\ UNCHANGED <<loaderVars, detectVars, decodeVars, sliceVars, stackVars>>

\* the Clear button, then the render
VolumeClear ==
    LET h == clearVolume(volume.hook) IN
    /\ volume' = [volume EXCEPT !.hook = h, !.lastCall = "clearVolume",
                                !.view = MainViewerArea(h)]
    /\ UNCHANGED <<wlVars, storeOpVars, mouseVars>>
    /\ UNCHANGED <<loaderVars, detectVars, decodeVars, sliceVars, stackVars>>

WindowLevelIdle == wlIn = None /\ wlOut = None
StoreOpIdle == storeOp = None /\ storeLoads = {}
MouseIdle == drag = None
VolumeIdle == volume = None
ViewIdle == WindowLevelIdle /\ StoreOpIdle /\ MouseIdle /\ VolumeIdle

DecodeIdle == decIn = None /\ decOut = None
SliceIdle == sliceIn = None /\ out2D = None /\ outMPR = None
StackIdle == stackIn = <<>> /\ stackAlt = <<>> /\ stackOut = None /\ stackAltOut = None

(***************************************************************************)
(* Specifications                                                          *)
(***************************************************************************)
\* the upload handler over the FileReader loader
Init == LoaderIdle /\ DetectIdle /\ DecodeIdle /\ SliceIdle /\ StackIdle /\ ViewIdle
Next == HandleFileLoad \/ ReaderCallback
Spec == Init /\ [][Next]_vars

\* every started read eventually calls back; the user need not drop files
FairSpec == Spec /\ WF_vars(ReaderCallback)

\* the upload handler over the shared-worker loader
NextWorker ==
    HandleFileLoadWorker \/ ReaderCallbackLegacy \/ WorkerReaderOnload \/ WorkerOnMessage
SpecWorker == Init /\ [][NextWorker]_vars

\* loadFile applied to one file name
InitDetectSpec == InitDetect /\ LoaderIdle /\ DecodeIdle /\ SliceIdle /\ StackIdle /\ ViewIdle
NextDetect == RunLoadFile
SpecDetect == InitDetectSpec /\ [][NextDetect]_vars

\* slice extraction and display normalisation of one request
InitSliceSpec == InitSlice /\ LoaderIdle /\ DetectIdle /\ DecodeIdle /\ StackIdle /\ ViewIdle
NextSlice == RenderSlice \/ RenderView
SpecSlice == InitSliceSpec /\ [][NextSlice]_vars

\* each decoder applied to one file image
InitDecodeSpec == InitDecode /\ LoaderIdle /\ DetectIdle /\ SliceIdle /\ StackIdle /\ ViewIdle
NextDecode ==
    DecodeNumPy \/ DecodeDicom \/ DecodeDicomWorker \/ DecodeNifti \/ DecodeImage
SpecDecode == InitDecodeSpec /\ [][NextDecode]_vars

\* the stack assembler applied to one file list and to a reordering of it
InitStackSpec == InitStack /\ LoaderIdle /\ DetectIdle /\ DecodeIdle /\ SliceIdle /\ ViewIdle
NextStack == RunLoadImageStack \/ RunLoadImageStackReordered
SpecStack == InitStackSpec /\ [][NextStack]_vars


\* applyWindowLevel of both components applied to two samples
InitWindowLevelSpec ==
    /\ InitWindowLevel /\ StoreOpIdle /\ MouseIdle /\ VolumeIdle
    /\ LoaderIdle /\ DetectIdle /\ DecodeIdle /\ SliceIdle /\ StackIdle
NextWindowLevel == ApplyWindowLevel2D \/ ApplyWindowLevelMPR
SpecWindowLevel == InitWindowLevelSpec /\ [][NextWindowLevel]_vars

\* the mouse over the 2D canvas of a freshly opened viewer
InitMouseSpec ==
    /\ drag = DragInit /\ WindowLevelIdle /\ StoreOpIdle /\ VolumeIdle
    /\ LoaderIdle /\ DetectIdle /\ DecodeIdle /\ SliceIdle /\ StackIdle
NextMouse == MouseDown \/ MouseMove \/ MouseUp
SpecMouse == InitMouseSpec /\ [][NextMouse]_vars

\* the store under the upload areas and the viewer controls
InitStoreSpec ==
    /\ storeOp = Op("none") /\ storeLoads = {}
    /\ WindowLevelIdle /\ MouseIdle /\ VolumeIdle
    /\ LoaderIdle /\ DetectIdle /\ DecodeIdle /\ SliceIdle /\ StackIdle
NextStore ==
    \/ StoreSetImageFile \/ StoreSetImageFileBegin \/ StoreSetImageFileSettles
    \/ StoreSetMaskFile \/ StoreClearFile \/ StoreSliceChange
    \/ StoreImageWindowLevelChange \/ StoreMaskWindowLevelChange
    \/ StoreSetView \/ StoreResetView
SpecStore == InitStoreSpec /\ [][NextStore]_vars

\* the volume renderer hook inside MedicalVolumeViewer
InitVolumeSpec ==
    /\ volume = VolumeMounted
    /\ WindowLevelIdle /\ StoreOpIdle /\ MouseIdle
    /\ LoaderIdle /\ DetectIdle /\ DecodeIdle /\ SliceIdle /\ StackIdle
NextVolume == VolumeLoad \/ VolumeClear
SpecVolume == InitVolumeSpec /\ [][NextVolume]_vars

(***************************************************************************)
(* Claims                                                                  *)
(***************************************************************************)
Settled(c) == calls[c].state \in {"resolved", "rejected"}
CallsTo(slot) == { c \in CallIds : calls[c].state # "unused" /\ calls[c].slot = slot }
SlotFile(slot) == IF slot = "image" THEN store.imageFile ELSE store.maskFile
Latest(S) == CHOOSE c \in S : \A d \in S : d <= c

\* C2: last-write-wins per slot.  When the loads issued for a slot have all
\* resolved and the latest of them was issued while an earlier one was still
\* pending, the slot holds the result of the latest-issued load, whatever the
\* order in which the decodes finished.
C2_LastIssuedWins ==
    \A slot \in Slots :
        LET S == CallsTo(slot) IN
        (/\ Cardinality(S) >= 2
         /\ \A c \in S : calls[c].state = "resolved"
         /\ calls[Latest(S)].pendingAtIssue \cap S # {})
        => SlotFile(slot) = calls[Latest(S)].result

\* C3: concurrent decodes do not interfere.  Every settled load carries the
\* decoded data, or the error, of its own input file.
C3_OwnResult ==
    \A c \in CallIds : Settled(c) => calls[c].result.src = calls[c].file

\* C4: every loadFile call eventually settles, resolved or rejected.
C4_EventuallySettles ==
    \A c \in CallIds : (calls[c].state = "pending") ~> Settled(c)

\* the extension table of the format detector
ExtensionTags ==
    { <<ExtNpy, "numpy">>, <<ExtNii, "nifti">>, <<ExtNiiGz, "nifti">>,
      <<ExtDcm, "dicom">>, <<ExtDicom, "dicom">>,
      <<ExtPng, "image">>, <<ExtJpg, "image">>, <<ExtJpeg, "image">> }

\* C5: format detection returns exactly one format tag or fails.  The decoder
\* invoked is the one of the lower-cased name's extension, a resolved load
\* carries that decoder's fileType, and a name with none of the extensions is
\* rejected as unsupported with no decoder invoked.
C5_FormatDetection ==
    detOut # None =>
        LET lower == toLowerCase(detIn.name)
            tags == { p[2] : p \in { q \in ExtensionTags : endsWith(lower, q[1]) } }
        IN /\ Cardinality(tags) <= 1
           /\ tags = {} =>
                /\ detOut.settled = "rejected"
                /\ detOut.error = "Unsupported file format"
                /\ detOut.invoked = "none"
           /\ \A t \in tags :
                /\ detOut.invoked = t
                /\ detOut.settled = "resolved" <=> detIn.decodes
                /\ detOut.settled = "resolved" => detOut.fileType = t

\* a name with an upper-case extension has been loaded and resolved
C5_Witness ==
    /\ detOut # None
    /\ detOut.settled = "resolved"
    /\ detIn.name # toLowerCase(detIn.name)
    /\ detOut.fileType = "dicom"

\* the window/level mapping of section 4.8 for sample v
WindowLevelByte(v, windowLevel) ==
    LET lo2 == 2 * windowLevel.center - windowLevel.width
        hi2 == 2 * windowLevel.center + windowLevel.width
    IN IF 2 * v <= lo2 THEN 0
       ELSE IF 2 * v >= hi2 THEN 255
       ELSE RoundScale255(2 * v - lo2, hi2 - lo2)

SliceInRange(axisLength) == sliceIn.index >= 0 /\ sliceIn.index < axisLength
AxisLength(dims, orientation) ==
    CASE orientation = "axial" -> dims[3]
      [] orientation = "sagittal" -> dims[1]
      [] orientation = "coronal" -> dims[2]

\* C6: the bytes produced for display are the window/level mapping of the raw
\* samples of the slice under the configured (center, width).
C6_DisplayIsWindowLevel ==
    /\ (out2D # None /\ SliceInRange(sliceIn.volume.dims[3])) =>
          \A p \in DOMAIN out2D.sliceData :
              out2D.sliceData[p] =
                  WindowLevelByte(At(sliceIn.volume.data, out2D.source[p].index),
                                  sliceIn.windowLevel)
    /\ outMPR # None =>
          \A p \in DOMAIN outMPR.pixels :
              outMPR.pixels[p] = WindowLevelByte(outMPR.sliceData[p], sliceIn.windowLevel)

\* C7: for every requested index, every sample of the extracted plane was read
\* from inside the volume buffer.
C7_ReadsInsideVolume ==
    /\ out2D # None =>
          \A p \in DOMAIN out2D.source :
              /\ out2D.source[p].read
              /\ out2D.source[p].index \in 0..(Len(sliceIn.volume.data) - 1)
    /\ outMPR # None =>
          \A p \in DOMAIN outMPR.source :
              /\ outMPR.source[p].read
              /\ outMPR.source[p].index \in 0..(Len(sliceIn.volume.data) - 1)

C1_LengthIsProductOfDims ==
    (decOut # None /\ decOut.status = "resolved") =>
        /\ Len(decOut.dims) = 3
        /\ decOut.length = decOut.dims[1] * decOut.dims[2] * decOut.dims[3]

DistinctNames(fs) == \A i, j \in DOMAIN fs : fs[i].name = fs[j].name => i = j
SortedByLocale(names) ==
    \A i, j \in DOMAIN names : i < j => localeCompare(names[i], names[j]) <= 0

C10_KindPrecedence ==
    (stackOut # None /\ stackOut.status = "resolved") =>
        stackOut.kind =
            IF \E i \in DOMAIN stackIn : stackIn[i].kind = "float32" THEN "float32"
            ELSE IF \E i \in DOMAIN stackIn : stackIn[i].kind = "uint16" THEN "uint16"
            ELSE "uint8"

IsNumPyRun == decIn # None /\ decOut # None /\ decIn.format = "numpy"
IsDicomRun == decIn # None /\ decOut # None /\ decIn.format = "dicom"
StepSet(steps) == { steps[i] : i \in DOMAIN steps }
Before(steps, a, b) ==
    \E i, j \in DOMAIN steps : i < j /\ steps[i] = a /\ steps[j] = b

\* C14: the DICOM decoder reports dimensions (columns, rows, 1): the Columns
\* value first and the Rows value second, for every instance it decodes.
C14_DicomColumnsRows ==
    (IsDicomRun /\ decOut.status = "resolved") =>
        decOut.dims = <<decIn.columns, decIn.rows, 1>>

\* C15: a NumPy header shape of two entries (h, w) is reported as the
\* dimensions (w, h, 1).
C15_NumPy2DPromotion ==
    (IsNumPyRun /\ decOut.status = "resolved" /\ Len(decIn.header.shape) = 2) =>
        decOut.dims = <<decIn.header.shape[2], decIn.header.shape[1], 1>>

\* C16: every successful load reports dimensions that are a triple of
\* positive integers; a NumPy shape of one entry or of more than three never
\* gives dimensions of another length.
C16_DimensionsTriple ==
    (decOut # None /\ decOut.status = "resolved") =>
        /\ Len(decOut.dims) = 3
        /\ \A i \in DOMAIN decOut.dims : decOut.dims[i] > 0

\* C17: a NumPy file whose first 6 bytes are not the signature is rejected
\* with the invalid-format error, after the signature read and nothing else:
\* no version byte, header length or header text is read and no buffer is
\* returned.
C17_InvalidMagicStopsParse ==
    (IsNumPyRun /\ decIn.byteLength >= 6 /\ decIn.magic # NumPyMagic) =>
        /\ decOut.status = "rejected"
        /\ decOut.error = "Invalid NumPy file format"
        /\ decOut.steps = <<"magic">>
        /\ decOut.length = 0
C17_Witness ==
    /\ IsNumPyRun
    /\ decIn.byteLength >= 6
    /\ decIn.magic = NotNpyMagic
    /\ decOut.status = "rejected"

HeaderUnreadable(header) ==
    \/ ~header.strict /\ ~header.lenient
    \/ ~header.hasShape
    \/ header.descr = "none"

\* C18: the NumPy header is parsed in two stages.  The strict parse comes
\* first, the lenient parse runs only after the strict parse has failed, a
\* header neither parse reads (or one without shape or descr) fails the load
\* with a header-parse error, and a resolved load reports the shape the
\* header states, never a default.
C18_TwoStageHeaderParse ==
    IsNumPyRun =>
        /\ "lenient" \in StepSet(decOut.steps) =>
              /\ Before(decOut.steps, "strict", "lenient")
              /\ ~decIn.header.strict
        /\ ("strict" \in StepSet(decOut.steps) /\ HeaderUnreadable(decIn.header)) =>
              /\ decOut.status = "rejected"
              /\ decOut.error \in {"Could not robustly parse NumPy header",
                                   "Could not parse NumPy header"}
        /\ decOut.status = "resolved" =>
              /\ ~HeaderUnreadable(decIn.header)
              /\ SubSeq(decOut.dims, 1, Len(decIn.header.shape)) = decIn.header.shape
C18_Witness ==
    /\ IsNumPyRun
    /\ ~decIn.header.strict
    /\ decIn.header.lenient
    /\ "lenient" \in StepSet(decOut.steps)
    /\ decOut.status = "resolved"

\* C19: the DICOM decoder fails with the missing-pixel-data error, and
\* returns no buffer, whenever Rows, Columns or the pixel-data element is
\* absent from the data set.
C19_MissingPixelData ==
    (IsDicomRun /\ decIn.parses
       /\ (decIn.rows = 0 \/ decIn.columns = 0 \/ ~decIn.hasPixelData)) =>
        /\ decOut.status = "rejected"
        /\ decOut.error = "Missing DICOM image data or dimensions"
        /\ decOut.length = 0

AlignUp16(x) == CHOOSE m \in x..(x + 15) : m % 16 = 0
LittleEndian(bytes, n) ==
    IF n = 2 THEN bytes[1] + 256 * bytes[2]
    ELSE bytes[1] + 256 * bytes[2] + 65536 * bytes[3] + 16777216 * bytes[4]

\* C20: the NumPy data offset is the smallest multiple of 16 that is at least
\* header start + header length, with start 10 and the 16-bit little-endian
\* length at byte 8 for version 1, start 12 and the 32-bit little-endian
\* length at byte 8 for version 2; any other major version is rejected.
C20_DataOffsetAligned ==
    IsNumPyRun =>
        /\ "data" \in StepSet(decOut.steps) =>
              /\ decIn.major \in {1, 2}
              /\ decIn.major = 1 =>
                    decOut.dataOffset = AlignUp16(10 + LittleEndian(decIn.lenBytes, 2))
              /\ decIn.major = 2 =>
                    decOut.dataOffset = AlignUp16(12 + LittleEndian(decIn.lenBytes, 4))
        /\ ("version" \in StepSet(decOut.steps) /\ decIn.byteLength >= 7
              /\ decIn.major \notin {1, 2}) =>
              /\ decOut.status = "rejected"
              /\ decOut.error = "Unsupported NumPy version"
C20_Witness ==
    /\ IsNumPyRun
    /\ decIn.major = 2
    /\ decOut.status = "resolved"
    /\ decOut.dataOffset = 64
    /\ decOut.length > 0

Supported(f) == StackDecoder(LastSegment(f.name)) # "unsupported"
PlaneSize(f) == f.dims[1] * f.dims[2]

\* C11: loadImageStack never returns a partially filled buffer.  A returned
\* volume has every one of its width*height*count positions copied from a
\* sample of the corresponding slice; the call fails when a file has an
\* unsupported extension or does not decode, and returns no volume when a
\* slice holds fewer than width*height samples or is not of depth 1.
C11_NoPartialVolume ==
    stackOut # None =>
        /\ stackOut.status = "resolved" =>
              /\ stackOut.holes = {}
              /\ Len(stackOut.pixelData) =
                    stackOut.dims[1] * stackOut.dims[2] * Len(stackIn)
        /\ (\E i \in DOMAIN stackIn : ~Supported(stackIn[i]) \/ ~stackIn[i].decodes) =>
              stackOut.status = "rejected"
        /\ (\E i \in DOMAIN stackIn :
                \/ Len(stackIn[i].data) < PlaneSize(stackIn[i])
                \/ stackIn[i].dims[3] # 1) =>
              stackOut.status # "resolved"

AllDecoded(fs) == \A i \in DOMAIN fs : Supported(fs[i]) /\ fs[i].decodes
SizesDiffer(fs) ==
    \E i, j \in DOMAIN fs :
        fs[i].dims[1] # fs[j].dims[1] \/ fs[i].dims[2] # fs[j].dims[2]

\* C12: when every file decodes, the stack assembler fails with the
\* dimension-mismatch error if any two slices differ in width or height, and
\* a returned volume has the width and height of every slice.
C12_DimensionMismatch ==
    (stackOut # None /\ AllDecoded(stackIn)) =>
        /\ SizesDiffer(stackIn) =>
              /\ stackOut.status = "rejected"
              /\ stackOut.error = "All slices must have the same width and height"
        /\ stackOut.status = "resolved" =>
              \A i \in DOMAIN stackIn :
                  /\ stackIn[i].dims[1] = stackOut.dims[1]
                  /\ stackIn[i].dims[2] = stackOut.dims[2]
C12_Witness ==
    /\ stackOut # None
    /\ Len(stackIn) = 3
    /\ AllDecoded(stackIn)
    /\ SizesDiffer(stackIn)
    /\ stackOut.status = "rejected"

\* C13: a returned stack is one buffer of width*height*count samples with
\* dimensions (width, height, count) in which position z*width*height + i
\* holds sample i of the z-th slice, and stackedFrom lists the file names in
\* that slice order.
C13_StackCopy ==
    (stackOut # None /\ stackOut.status = "resolved") =>
        LET sorted == SortByName(stackIn)
            width == sorted[1].dims[1]
            height == sorted[1].dims[2]
            count == Len(sorted)
        IN
        /\ stackOut.dims = <<width, height, count>>
        /\ Len(stackOut.pixelData) = width * height * count
        /\ \A z \in 0..(count - 1) : \A i \in 0..(width * height - 1) :
              /\ i < Len(sorted[z + 1].data)
              /\ stackOut.pixelData[z * width * height + i + 1] = sorted[z + 1].data[i + 1]
        /\ stackOut.stackedFrom = [z \in 1..count |-> sorted[z].name]

IsNiftiRun == decIn # None /\ decOut # None /\ decIn.format = "nifti"

\* C21: the steps of a NIfTI load are ordered.  The input is inflated if and
\* only if the file name ends with .nii.gz, inflation comes before the
\* signature check and the header read, a failed inflation fails the load
\* with the decompression error before anything else is inspected, and a
\* signature mismatch fails the load with the invalid-format error.
C21_NiftiStepOrder ==
    IsNiftiRun =>
        LET steps == decOut.steps
            named == endsWith(toLowerCase(decIn.name), ExtNiiGz)
        IN
        /\ ("inflate" \in StepSet(steps)) <=> named
        /\ "inflate" \in StepSet(steps) => steps[1] = "inflate"
        /\ \A i, j \in DOMAIN steps : (i < j) => steps[i] # steps[j]
        /\ "header" \in StepSet(steps) => Before(steps, "magic", "header")
        /\ (named /\ ~decIn.inflates) =>
              /\ decOut.status = "rejected"
              /\ decOut.error = "Failed to decompress .nii.gz file"
              /\ steps = <<"inflate">>
        /\ ("magic" \in StepSet(steps) /\ "header" \notin StepSet(steps)) =>
              /\ decOut.status = "rejected"
              /\ decOut.error = "File is not in NIfTI format"
        /\ ((named => decIn.inflates) /\ ~decIn.isNifti) =>
              /\ decOut.status = "rejected"
              /\ decOut.error = "File is not in NIfTI format"
C21_Witness ==
    /\ IsNiftiRun
    /\ decIn.name = <<"x", ".", "N", "I", "I", ".", "G", "Z">>
    /\ decIn.inflates
    /\ decOut.steps = <<"inflate", "magic", "header", "image">>
    /\ decOut.status = "resolved"

BinaryByte(v) == IF v > 0 THEN Num(255, 1) ELSE Num(0, 1)
NumLeq(a, b) == ~a.nan /\ ~b.nan /\ a.num * b.den <= b.num * a.den
InWindow(v, windowLevel) ==
    /\ 2 * v >= 2 * windowLevel.center - windowLevel.width
    /\ 2 * v <= 2 * windowLevel.center + windowLevel.width

\* C22: with a window of width 0 the window/level mapping sends every sample
\* above 0 to 255 and every other sample to 0, whatever the slice's min and
\* max and whatever the center.
C22_DegenerateWidth ==
    (wlIn # None /\ wlIn.windowLevel.width = 0) =>
        /\ wlOut.r2d.applied =>
              /\ wlOut.r2d.first = BinaryByte(wlIn.v1)
              /\ wlOut.r2d.second = BinaryByte(wlIn.v2)
        /\ wlOut.mpr.applied =>
              /\ wlOut.mpr.first = BinaryByte(wlIn.v1)
              /\ wlOut.mpr.second = BinaryByte(wlIn.v2)

\* C23: window/level normalisation is monotonic.  For a window of width > 0
\* and samples v1 < v2 inside [lo, hi], the value of v1 is at most that of v2.
C23_Monotonic ==
    (/\ wlIn # None
     /\ wlIn.windowLevel.width > 0
     /\ wlIn.v1 < wlIn.v2
     /\ InWindow(wlIn.v1, wlIn.windowLevel)
     /\ InWindow(wlIn.v2, wlIn.windowLevel)) =>
        /\ wlOut.r2d.applied => NumLeq(wlOut.r2d.first, wlOut.r2d.second)
        /\ wlOut.mpr.applied => NumLeq(wlOut.mpr.first, wlOut.mpr.second)
C23_Witness ==
    /\ wlIn # None
    /\ wlIn.windowLevel = [center |-> 3, width |-> 4]
    /\ wlIn.range.max > wlIn.range.min
    /\ wlIn.v1 = 2 /\ wlIn.v2 = 4
    /\ wlOut.r2d.applied /\ wlOut.mpr.applied
    /\ wlOut.r2d.first # wlOut.r2d.second
    /\ wlOut.mpr.first # wlOut.mpr.second

\* C25: click-and-drag pans the image.  Every mousemove between a mousedown on
\* the canvas and the matching mouseup changes the store's pan by the pointer
\* delta since the previous event, and no mousemove after the mouseup changes
\* pan.
C25_DragPans ==
    [][(drag # None /\ drag' # drag /\ drag'.lastEvent = "move") =>
          IF drag.buttonDown
          THEN store'.pan = [x |-> store.pan.x + (drag'.pointer.x - drag.pointer.x),
                             y |-> store.pan.y + (drag'.pointer.y - drag.pointer.y)]
          ELSE store'.pan = store.pan]_vars

\* C26: the loading flag tracks the loads in flight.  isLoading is true
\* whenever a load started through an upload handler has not completed, and
\* false once every started load has completed.
C26_LoadingTracksInFlight ==
    /\ (\E c \in CallIds : calls[c].state = "pending") => store.isLoading
    /\ (/\ \E c \in CallIds : calls[c].state # "unused"
        /\ \A c \in CallIds : calls[c].state # "pending") => ~store.isLoading

StoreRuns == storeOp # None
DefaultWindowLevel == [center |-> 128, width |-> 256]

\* C24: image and mask window/level are configured independently.  A
\* setImageWindowLevel step changes imageWindowLevel and no other store field,
\* a setMaskWindowLevel step changes maskWindowLevel and no other store field.
C24_WindowLevelsIndependent ==
    [][/\ (StoreRuns /\ storeOp'.op = "imageWL") =>
            store' = [store EXCEPT !.imageWindowLevel = store'.imageWindowLevel]
       /\ (StoreRuns /\ storeOp'.op = "maskWL") =>
            store' = [store EXCEPT !.maskWindowLevel = store'.maskWindowLevel]]_vars
C24_Witness ==
    /\ StoreRuns
    /\ storeOp.op = "imageWL"
    /\ store.imageWindowLevel = [center |-> 40, width |-> 80]
    /\ store.maskWindowLevel = [center |-> 128, width |-> 80]

\* C27: slice-navigation invariant.  totalSlices is 0 without an image and
\* the image's depth (1 when dimensions[2] is 0 or missing) with one,
\* currentSlice lies in 0 .. max(0, totalSlices - 1), and every successful
\* image load and every clear leaves currentSlice at 0.
C27_SliceNavigation ==
    StoreRuns =>
        /\ store.imageFile = None => store.totalSlices = 0
        /\ store.imageFile # None =>
              store.totalSlices =
                  (IF Len(store.imageFile.dims) >= 3 /\ store.imageFile.dims[3] # 0
                   THEN store.imageFile.dims[3] ELSE 1)
        /\ store.currentSlice >= 0
        /\ store.currentSlice <= (IF store.totalSlices > 1 THEN store.totalSlices - 1 ELSE 0)
        /\ storeOp.op \in {"setImageFile", "setImageFile.resolved", "clearImage"} =>
              store.currentSlice = 0
C27_Witness ==
    /\ StoreRuns
    /\ storeOp.op = "clearImage"
    /\ store.imageFile = None
    /\ store.maskFile # None
    /\ store.imageWindowLevel # DefaultWindowLevel

\* C28: a failed image load leaves the viewer's data unchanged.  The step in
\* which setImageFile learns that the decode failed sets error to the failure
\* message and isLoading to false, and the steps of that call leave imageFile,
\* maskFile, totalSlices, currentSlice, zoom, pan and viewMode as they were.
C28_FailedLoadKeepsData ==
    [][/\ (StoreRuns /\ storeOp'.op = "setImageFile.failed") =>
            /\ store'.error # None
            /\ ~store'.isLoading
            /\ store' = [store EXCEPT !.error = store'.error, !.isLoading = FALSE]
       /\ (StoreRuns /\ storeOp'.op = "setImageFile.begin") =>
            store' = [store EXCEPT !.error = None, !.isLoading = TRUE]]_vars
C28_Witness ==
    /\ StoreRuns
    /\ storeOp.op = "setImageFile.failed"
    /\ store.imageFile # None
    /\ store.maskFile # None
    /\ store.currentSlice = 1
    /\ store.zoom = 2
    /\ store.error # None

\* C29: the image and mask slots are independent.  A setMaskFile step (load
\* or clear) leaves imageFile, totalSlices, currentSlice, zoom, pan and
\* viewMode unchanged, and a setImageFile step (load or clear) leaves maskFile
\* unchanged.
C29_SlotsIndependent ==
    [][/\ (StoreRuns /\ storeOp'.op \in {"setMaskFile", "clearMask"}) =>
            /\ store'.imageFile = store.imageFile
            /\ store'.totalSlices = store.totalSlices
            /\ store'.currentSlice = store.currentSlice
            /\ store'.zoom = store.zoom
            /\ store'.pan = store.pan
            /\ store'.viewMode = store.viewMode
       /\ (StoreRuns /\ storeOp'.op \in {"setImageFile", "setImageFile.begin",
                                        "setImageFile.resolved", "setImageFile.failed",
                                        "clearImage"}) =>
            store'.maskFile = store.maskFile]_vars
C29_Witness ==
    /\ StoreRuns
    /\ storeOp.op = "setMaskFile"
    /\ store.maskFile # None
    /\ store.imageFile # None
    /\ store.currentSlice = 1
    /\ store.zoom = 2
    /\ store.pan = [x |-> 1, y |-> 1]

VolumeRuns == volume # None
ValidVolume(d) ==
    /\ d # None
    /\ d.hasArray /\ d.hasDims
    /\ Len(d.dimensions) = 3
    /\ \A i \in 1..3 : d.dimensions[i] > 0
    /\ Len(d.volumeArray) = d.dimensions[1] * d.dimensions[2] * d.dimensions[3]
BadVolumeInput(d) ==
    \/ ~d.hasArray \/ Len(d.volumeArray) = 0
    \/ ~d.hasDims \/ Len(d.dimensions) # 3
    \/ \E i \in 1..Len(d.dimensions) : d.dimensions[i] <= 0
    \/ Len(d.volumeArray) # Product(d.dimensions)

\* C30: volume-renderer validity.  After any sequence of loadVolume and
\* clearVolume calls isValid is true only if volumeData is non-null with three
\* positive dimensions whose product is the array length; loadVolume returns
\* false and leaves isValid false for an empty array, dimensions not of
\* length 3, a dimension <= 0 or a length mismatch; and the 3D renderer is
\* mounted only while isValid is true.
C30_VolumeValidity ==
    VolumeRuns =>
        /\ volume.hook.isValid => ValidVolume(volume.hook.volumeData)
        /\ (volume.lastCall = "loadVolume" /\ BadVolumeInput(volume.data)) =>
              ~volume.returned /\ ~volume.hook.isValid
        /\ volume.view = "VTKVolumeRenderer3D" => volume.hook.isValid
        /\ volume.view # "TypeError"
C30_Witness ==
    /\ VolumeRuns
    /\ volume.lastCall = "loadVolume"
    /\ Len(volume.data.volumeArray) = MaxVolDim * MaxVolDim * MaxVolDim - 1
    /\ volume.data.dimensions = <<MaxVolDim, MaxVolDim, MaxVolDim>>
    /\ ~volume.returned
    /\ volume.hook.volumeData # None
    /\ volume.view = "placeholder"

====
